---- MODULE Spec2Model ----
(***************************************************************************)
(* Model of the BookInventoryApp record store (lib/db.ts), of the          *)
(* spreadsheet restore importer (lib/restore-service.ts) and of the date   *)
(* windows of the analytics screen (app/analytics.tsx).                    *)
(*                                                                         *)
(* The four AsyncStorage slots are the variables books, sales, expenses    *)
(* and restocks; the module-level id counters are nextBookId, nextSaleId,  *)
(* nextExpenseId and nextRestockId.  Every db method is one action that    *)
(* runs the whole awaited call.  `op` records the last call, its           *)
(* arguments and its result, `now` is the wall clock read by new Date().   *)
(* `calls` holds the calls that run step by step, await by await, with     *)
(* what each has read; it stays empty while every call is awaited whole.   *)
(***************************************************************************)
EXTENDS Integers, Sequences, FiniteSets, TLC

VARIABLES books, sales, expenses, restocks,
          nextBookId, nextSaleId, nextExpenseId, nextRestockId,
          now, op, calls

store == <<books, sales, expenses, restocks>>
counters == <<nextBookId, nextSaleId, nextExpenseId, nextRestockId>>
vars == <<books, sales, expenses, restocks,
          nextBookId, nextSaleId, nextExpenseId, nextRestockId, now, op, calls>>

----------------------------------------------------------------------------
(* Bounds of the exploration *)

MaxBooks == 2
MaxSales == 1
MaxExpenses == 1
MaxRestocks == 2
MaxStock == 3
MaxId == 2
MaxStored == 1
MaxCalls == 2

(* Argument domains of the calls the screens make *)

Ids == 1..MaxId
Names == {"A", "b"}
Deltas == {-2, 0, 1}
SaleArgs == {[qty |-> 1, totalAmount |-> 4, costPrice |-> 2],
             [qty |-> 2, totalAmount |-> 1, costPrice |-> 2]}
ExpenseAmounts == {3}

----------------------------------------------------------------------------
(* Helpers standing for JavaScript built-ins *)

Max(a, b) == IF a >= b THEN a ELSE b

\* new Date().toISOString() at clock value t
TimeStr == <<"2024-01-01T00:00:00.000Z", "2024-01-02T00:00:00.000Z",
             "2024-01-03T00:00:00.000Z", "2024-01-04T00:00:00.000Z">>
toISOString(t) == TimeStr[t]

\* Array.prototype.findIndex(b => b.id === id): first match, 0 for JS's -1
findIndex(list, id) ==
    IF \E i \in 1..Len(list) : list[i].id = id
    THEN CHOOSE i \in 1..Len(list) :
            /\ list[i].id = id
            /\ \A j \in 1..(i - 1) : list[j].id # id
    ELSE 0

\* Array.prototype.filter(x => x.id !== id)
RECURSIVE filterOutId(_, _)
filterOutId(list, id) ==
    IF list = <<>> THEN <<>>
    ELSE IF Head(list).id = id THEN filterOutId(Tail(list), id)
         ELSE <<Head(list)>> \o filterOutId(Tail(list), id)

\* Math.max(...list.map(x => x.id))
maxId(list) == CHOOSE m \in {list[i].id : i \in 1..Len(list)} :
                  \A i \in 1..Len(list) : list[i].id <= m

\* object spread / property assignment: fields of `over` win
assign(obj, over) == over @@ obj

----------------------------------------------------------------------------
(* lib/db.ts *)

\* loadIds(): a counter is recomputed only for a non-empty collection
loadedId(list, cur) == IF Len(list) > 0 THEN maxId(list) + 1 ELSE cur

\* the Restock object built by recordRestock
newRestock(bookId, bookName, qtyAdded, date) ==
    [id |-> nextRestockId, bookId |-> bookId, bookName |-> bookName,
     qtyAdded |-> qtyAdded, date |-> date]

\* updateStock without the Math.max(0, ...) clamp
stockedBooksNoClamp(list, idx, delta, date) ==
    LET b0 == list[idx]
        b1 == [b0 EXCEPT !.stock = b0.stock + delta]
        b2 == IF delta > 0 THEN assign(b1, [lastStockedAt |-> date]) ELSE b1
    IN  [list EXCEPT ![idx] = b2]

\* the Book array updateStock saves
stockedBooks(list, idx, delta, date) ==
    LET b0 == list[idx]
        b1 == [b0 EXCEPT !.stock = Max(0, b0.stock + delta)]
        b2 == IF delta > 0 THEN assign(b1, [lastStockedAt |-> date]) ELSE b1
    IN  [list EXCEPT ![idx] = b2]

\* the form object add-book.tsx hands to addBook / updateBook
bookForm(n, s) == [name |-> n, author |-> "", stock |-> s, targetStock |-> 5,
                   costPrice |-> 2, sellPrice |-> 3, isbn |-> ""]
BookForms == {bookForm("A", -1), bookForm("A", 2), bookForm("b", 0)}

addBook(book) ==
    /\ Len(books) < MaxBooks
    /\ Len(restocks) < MaxRestocks
    /\ nextBookId <= MaxId
    /\ LET date == toISOString(now)
           newBook == assign(book, [id |-> nextBookId, lastStockedAt |-> date])
       IN  /\ books' = Append(books, newBook)
           /\ nextBookId' = nextBookId + 1
           /\ restocks' = Append(restocks,
                  newRestock(newBook.id, newBook.name, newBook.stock, date))
           /\ nextRestockId' = nextRestockId + 1
           /\ op' = [name |-> "addBook", result |-> newBook]
    /\ UNCHANGED <<sales, expenses, nextSaleId, nextExpenseId, now, calls>>

\* updateBook that adds the Book when its id is not found
updateBookUpsert(book) ==
    /\ LET idx == findIndex(books, book.id)
       IN  books' = IF idx # 0 THEN [books EXCEPT ![idx] = book]
                   ELSE Append(books, book)
    /\ op' = [name |-> "updateBook", id |-> book.id]
    /\ UNCHANGED <<sales, expenses, restocks, counters, now, calls>>

updateBook(book) ==
    /\ LET idx == findIndex(books, book.id)
       IN  books' = IF idx # 0 THEN [books EXCEPT ![idx] = book] ELSE books
    /\ op' = [name |-> "updateBook", id |-> book.id]
    /\ UNCHANGED <<sales, expenses, restocks, counters, now, calls>>

\* deleteBook that also removes the Sales of the Book
deleteBookCascade(id) ==
    /\ books' = filterOutId(books, id)
    /\ sales' = SelectSeq(sales, LAMBDA x : x.bookId # id)
    /\ op' = [name |-> "deleteBook", id |-> id]
    /\ UNCHANGED <<expenses, restocks, counters, now, calls>>

deleteBook(id) ==
    /\ books' = filterOutId(books, id)
    /\ op' = [name |-> "deleteBook", id |-> id]
    /\ UNCHANGED <<sales, expenses, restocks, counters, now, calls>>

updateStock(id, delta) ==
    /\ LET idx == findIndex(books, id)
           date == toISOString(now)
       IN  IF idx # 0
           THEN /\ books[idx].stock + delta <= MaxStock
                /\ books' = stockedBooks(books, idx, delta, date)
                /\ IF delta > 0
                   THEN /\ Len(restocks) < MaxRestocks
                        /\ restocks' = Append(restocks,
                               newRestock(id, books[idx].name, delta, date))
                        /\ nextRestockId' = nextRestockId + 1
                   ELSE UNCHANGED <<restocks, nextRestockId>>
           ELSE UNCHANGED <<books, restocks, nextRestockId>>
    /\ op' = [name |-> "updateStock", id |-> id, delta |-> delta]
    /\ UNCHANGED <<sales, expenses, nextBookId, nextSaleId, nextExpenseId, now, calls>>

\* recordSale with the cost of one unit only in the profit
newSaleUnitCost(bookId, qty, totalAmount, costPrice, bookName, date) ==
    LET profit == totalAmount - costPrice
    IN  [id |-> nextSaleId, bookId |-> bookId, bookName |-> bookName,
         qty |-> qty, totalAmount |-> totalAmount, profit |-> profit,
         date |-> date]

\* the Sale object built by recordSale
newSale(bookId, qty, totalAmount, costPrice, bookName, date) ==
    LET profit == totalAmount - (qty * costPrice)
    IN  [id |-> nextSaleId, bookId |-> bookId, bookName |-> bookName,
         qty |-> qty, totalAmount |-> totalAmount, profit |-> profit,
         date |-> date]

recordSale(bookId, qty, totalAmount, costPrice, bookName) ==
    /\ Len(sales) < MaxSales
    /\ LET date == toISOString(now)
           sale == newSale(bookId, qty, totalAmount, costPrice, bookName, date)
           idx == findIndex(books, bookId)
       IN  /\ sales' = Append(sales, sale)
           /\ nextSaleId' = nextSaleId + 1
           \* this.updateStock(bookId, -qty); -qty is never > 0 here
           /\ books' = IF idx # 0 THEN stockedBooks(books, idx, -qty, date)
                       ELSE books
    /\ op' = [name |-> "recordSale", bookId |-> bookId, qty |-> qty,
              totalAmount |-> totalAmount, costPrice |-> costPrice,
              bookName |-> bookName]
    /\ UNCHANGED <<expenses, restocks, nextBookId, nextExpenseId,
                   nextRestockId, now, calls>>

addExpense(expense) ==
    /\ Len(expenses) < MaxExpenses
    /\ nextExpenseId <= MaxId
    /\ LET newExpense == assign(expense, [id |-> nextExpenseId])
       IN  /\ expenses' = Append(expenses, newExpense)
           /\ nextExpenseId' = nextExpenseId + 1
           /\ op' = [name |-> "addExpense", result |-> newExpense]
    /\ UNCHANGED <<books, sales, restocks, nextBookId, nextSaleId,
                   nextRestockId, now, calls>>

updateExpense(expense) ==
    /\ LET idx == findIndex(expenses, expense.id)
       IN  expenses' = IF idx # 0 THEN [expenses EXCEPT ![idx] = expense]
                       ELSE expenses
    /\ op' = [name |-> "updateExpense", id |-> expense.id]
    /\ UNCHANGED <<books, sales, restocks, counters, now, calls>>

deleteExpense(id) ==
    /\ expenses' = filterOutId(expenses, id)
    /\ op' = [name |-> "deleteExpense", id |-> id]
    /\ UNCHANGED <<books, sales, restocks, counters, now, calls>>

\* Array.prototype.reduce((acc, x) => acc + f(x), 0), left to right
RECURSIVE reduceSum(_, _, _)
reduceSum(list, f(_), acc) ==
    IF list = <<>> THEN acc
    ELSE reduceSum(Tail(list), f, acc + f(Head(list)))

\* `n || d` on a number that is never NaN
orDefault(n, d) == IF n = 0 THEN d ELSE n

isLowStock(b) == b.stock <= orDefault(b.targetStock, 3) \/ b.stock = 0

\* netProfit / totalSales * 100 is kept as the fraction num / den
profitMarginOf(netProfit, totalSales) ==
    IF totalSales > 0 THEN [num |-> netProfit * 100, den |-> totalSales]
    ELSE [num |-> 0, den |-> 1]

\* getDashboardStats with netProfit taken from the revenue
dashboardStatsNetOfRevenue(bs, ss, es) ==
    LET stockOf(b) == b.stock
        valueOf(b) == b.stock * b.costPrice
        amountOf(s) == s.totalAmount
        profitOf(s) == s.profit
        expenseOf(e) == e.amount
        totalStock == reduceSum(bs, stockOf, 0)
        stockValue == reduceSum(bs, valueOf, 0)
        totalSales == reduceSum(ss, amountOf, 0)
        grossProfit == reduceSum(ss, profitOf, 0)
        totalExpenses == reduceSum(es, expenseOf, 0)
        netProfit == totalSales - totalExpenses
    IN  [totalStock |-> totalStock, stockValue |-> stockValue,
         totalSales |-> totalSales, grossProfit |-> grossProfit,
         totalExpenses |-> totalExpenses, netProfit |-> netProfit,
         totalBooks |-> Len(bs),
         lowStockCount |-> Cardinality({i \in 1..Len(bs) : isLowStock(bs[i])}),
         profitMargin |-> profitMarginOf(netProfit, totalSales),
         totalTransactions |-> Len(ss)]

dashboardStats(bs, ss, es) ==
    LET stockOf(b) == b.stock
        valueOf(b) == b.stock * b.costPrice
        amountOf(s) == s.totalAmount
        profitOf(s) == s.profit
        expenseOf(e) == e.amount
        totalStock == reduceSum(bs, stockOf, 0)
        stockValue == reduceSum(bs, valueOf, 0)
        totalSales == reduceSum(ss, amountOf, 0)
        grossProfit == reduceSum(ss, profitOf, 0)
        totalExpenses == reduceSum(es, expenseOf, 0)
        netProfit == grossProfit - totalExpenses
    IN  [totalStock |-> totalStock, stockValue |-> stockValue,
         totalSales |-> totalSales, grossProfit |-> grossProfit,
         totalExpenses |-> totalExpenses, netProfit |-> netProfit,
         totalBooks |-> Len(bs),
         lowStockCount |-> Cardinality({i \in 1..Len(bs) : isLowStock(bs[i])}),
         profitMargin |-> profitMarginOf(netProfit, totalSales),
         totalTransactions |-> Len(ss)]

getDashboardStats ==
    /\ op' = [name |-> "getDashboardStats",
              result |-> dashboardStats(books, sales, expenses)]
    /\ UNCHANGED <<store, counters, now, calls>>

\* the object getRawData resolves to
getRawData == [books |-> books, sales |-> sales, expenses |-> expenses,
               restocks |-> restocks]

\* a default that keeps the stored list of a key the data lacks
orStored(data, key) ==
    IF key \in DOMAIN data THEN data[key] ELSE getRawData[key]

\* `data.key || []`
orEmpty(data, key) == IF key \in DOMAIN data THEN data[key] ELSE <<>>

\* restoreData that leaves the restocks slot out
restorePairsNoRestocks(data) == <<orEmpty(data, "books"), orEmpty(data, "sales"),
                                  orEmpty(data, "expenses"), << >>>>

\* the key/value pairs restoreData hands to multiSet, in key order
restorePairs(data) == <<orEmpty(data, "books"), orEmpty(data, "sales"),
                        orEmpty(data, "expenses"), orEmpty(data, "restocks")>>

clearPairs == <<<< >>, << >>, << >>, << >>>>

\* AsyncStorage.multiSet: the first k pairs reach the slots; k = 4 is a
\* call that resolves, k < 4 one that rejects after k pairs were stored
multiSet(slots, pairs, k) == [i \in 1..4 |-> IF i <= k THEN pairs[i] ELSE slots[i]]

\* the counters after loadIds() has read the four slots
loadIds(slots, ctrs) == <<loadedId(slots[1], ctrs[1]), loadedId(slots[2], ctrs[2]),
                          loadedId(slots[3], ctrs[3]), loadedId(slots[4], ctrs[4])>>

\* the four slots and the four counters after a call
written(slots, ctrs) ==
    /\ books' = slots[1]
    /\ sales' = slots[2]
    /\ expenses' = slots[3]
    /\ restocks' = slots[4]
    /\ nextBookId' = ctrs[1]
    /\ nextSaleId' = ctrs[2]
    /\ nextExpenseId' = ctrs[3]
    /\ nextRestockId' = ctrs[4]

\* slots and counters after db.clearAllData() whose multiSet stored k pairs
clearedState(st, k) ==
    [slots |-> multiSet(st.slots, clearPairs, k),
     ctrs |-> IF k = 4 THEN <<1, 1, 1, 1>> ELSE st.ctrs,
     threw |-> k < 4]

\* slots and counters after db.restoreData(data) whose multiSet stored k pairs
restoredState(st, data, k) ==
    LET slots == multiSet(st.slots, restorePairs(data), k)
    IN  [slots |-> slots,
         ctrs |-> IF k = 4 THEN loadIds(slots, st.ctrs) ELSE st.ctrs,
         threw |-> k < 4]

current == [slots |-> store, ctrs |-> counters, threw |-> FALSE]

\* a process start whose module-load loadIds() has run to its end: the
\* counters are initialised to 1 and recomputed from the stored collections
restart ==
    /\ written(store, loadIds(store, <<1, 1, 1, 1>>))
    /\ op' = [name |-> "restart"]
    /\ UNCHANGED <<now, calls>>

clearAllData ==
    /\ LET st == clearedState(current, 4) IN written(st.slots, st.ctrs)
    /\ op' = [name |-> "clearAllData"]
    /\ UNCHANGED <<now, calls>>

\* db.restoreData(await db.getRawData())
restoreRaw ==
    /\ LET st == restoredState(current, getRawData, 4)
       IN  written(st.slots, st.ctrs)
    /\ op' = [name |-> "restoreRaw"]
    /\ UNCHANGED <<now, calls>>

----------------------------------------------------------------------------
(* JavaScript values of spreadsheet cells *)

Num(n) == [k |-> "num", v |-> n]
Str(s) == [k |-> "str", v |-> s]
NaN == [k |-> "nan"]
Undefined == [k |-> "undef"]

\* row.key: a column the sheet does not have reads as undefined
cell(row, key) == IF key \in DOMAIN row THEN row[key] ELSE Undefined

\* leading integer of the strings that have one (parseInt on a string)
IntPrefix == ("7" :> 7) @@ ("-5" :> -5) @@ ("2x" :> 2) @@ ("1" :> 1)

\* numeric value of the strings that are numeric (Number on a string)
NumberOfStr == ("" :> 0) @@ ("  " :> 0) @@ ("7" :> 7) @@ ("-5" :> -5)
               @@ ("1" :> 1)

\* String.prototype.trim on the strings that have outer white space
Trimmed == (" A " :> "A") @@ ("  " :> "") @@ ("b " :> "b")

\* String.prototype.toLowerCase on the strings that have upper case
LowerCased == ("Books" :> "books") @@ ("BOOKS" :> "books")
              @@ ("Sales" :> "sales") @@ ("Expenses" :> "expenses")
              @@ ("Notes" :> "notes") @@ ("A" :> "a") @@ ("Ab" :> "ab")
              @@ ("AB" :> "ab") @@ ("B" :> "b")

\* position of the names used in the order of String.prototype.localeCompare
Collation == ("7" :> 0) @@ ("A" :> 1) @@ ("Ab" :> 2) @@ ("b" :> 3)

\* the prefixes and suffixes a query can have inside a lower-cased name
Fragments == {"", "a", "b"}

parseInt(c) ==
    CASE c.k = "num" -> c
      [] c.k = "str" -> IF c.v \in DOMAIN IntPrefix THEN Num(IntPrefix[c.v])
                        ELSE NaN
      [] OTHER -> NaN

Number(c) ==
    CASE c.k = "num" -> c
      [] c.k = "str" -> IF c.v \in DOMAIN NumberOfStr
                        THEN Num(NumberOfStr[c.v]) ELSE NaN
      [] OTHER -> NaN

isNaN(x) == x.k = "nan"

trim(s) == IF s \in DOMAIN Trimmed THEN Trimmed[s] ELSE s

toLowerCase(s) == IF s \in DOMAIN LowerCased THEN LowerCased[s] ELSE s

localeCompare(a, b) ==
    IF Collation[a] < Collation[b] THEN -1
    ELSE IF Collation[a] > Collation[b] THEN 1 ELSE 0

\* String.prototype.includes
includes(str, q) == \E pre \in Fragments, post \in Fragments : str = pre \o q \o post

\* `x || d` on the result of parseInt / Number: 0 and NaN are falsy
numOr(x, d) == IF isNaN(x) \/ x.v = 0 THEN d ELSE x.v

\* Number.prototype.toString of an integer
RECURSIVE natToString(_)
natToString(n) ==
    LET digit == <<"0", "1", "2", "3", "4", "5", "6", "7", "8", "9">>[(n % 10) + 1]
    IN  IF n < 10 THEN digit ELSE natToString(n \div 10) \o digit

numToString(n) == IF n < 0 THEN "-" \o natToString(-n) ELSE natToString(n)

----------------------------------------------------------------------------
(* JavaScript Date.  A Date is its time value, counted here in minutes     *)
(* from 2024-01-01T00:00Z, a Monday; the dates used lie in December 2023   *)
(* and January 2024.  The local time zone is tz minutes ahead of UTC.      *)

\* the 86400000 ms of a day, in minutes
Day == 1440
Hour == 60

pad2(n) == IF n < 10 THEN "0" \o natToString(n) ELSE natToString(n)

\* Date.prototype.toISOString of a time value
isoString(t) ==
    LET d == t \div Day
        m == t % Day
        date == IF d >= 0 THEN "2024-01-" \o pad2(d + 1)
                ELSE "2023-12-" \o pad2(32 + d)
    IN  date \o "T" \o pad2(m \div Hour) \o ":" \o pad2(m % Hour) \o ":00.000Z"

\* the time values whose ISO string new Date(str) is asked to parse
MinuteMarks == {0, 17, 557, 1110, 1157}
Instants == {d * Day + m : d \in -1..6, m \in MinuteMarks}
IsoStrings == [t \in Instants |-> isoString(t)]

\* the strings new Date(str) parses to a valid time
ValidDates == {IsoStrings[t] : t \in Instants} \cup {"2023-12-31"}

\* new Date(str).getTime(): NaN for a string that is no date
getTime(str) ==
    IF str = "2023-12-31" THEN Num(-Day)
    ELSE IF \E t \in Instants : IsoStrings[t] = str
         THEN Num(CHOOSE t \in Instants : IsoStrings[t] = str)
         ELSE NaN

\* new Date(y, m, d) of the local date of t: the local midnight before t
startOfLocalDay(t, tz) == t - ((t + tz) % Day)

\* Date.prototype.getDay: 0 for Sunday, 1 for Monday
getDay(t, tz) == (((t + tz) \div Day) + 1) % 7

\* Date.prototype.getDate: the day of the month
getDate(t, tz) ==
    LET d == (t + tz) \div Day
    IN  IF d >= 0 THEN d + 1 ELSE 32 + d

\* Date.prototype.setHours(h): the minutes (and seconds) of t are kept
setHours(t, tz, h) == startOfLocalDay(t, tz) + h * Hour + ((t + tz) % Hour)

\* Date.prototype.setHours(h, min, 0, 0)
setHoursMin(t, tz, h, min) == startOfLocalDay(t, tz) + h * Hour + min

\* Date.prototype.setDate(day) inside the month of t
setDate(t, tz, day) == t + (day - getDate(t, tz)) * Day

\* String(c || d): undefined, '', 0 and NaN are falsy
stringOr(c, d) ==
    CASE c.k = "str" -> IF c.v = "" THEN d ELSE c.v
      [] c.k = "num" -> IF c.v = 0 THEN d ELSE numToString(c.v)
      [] OTHER -> d

----------------------------------------------------------------------------
(* lib/db.ts: the Book queries *)

\* each Book with the low flag of getAllBooks: stock <= (targetStock || 3)
keyedByTarget(list) ==
    [i \in 1..Len(list) |->
        [low |-> IF list[i].stock <= orDefault(list[i].targetStock, 3) THEN 0 ELSE 1,
         book |-> list[i]]]

\* each Book with the low flag of searchBooks: stock <= 3
keyedByThree(list) ==
    [i \in 1..Len(list) |->
        [low |-> IF list[i].stock <= 3 THEN 0 ELSE 1, book |-> list[i]]]

\* the comparator of both sorts: low flag first, then the name
compareLowName(a, b) ==
    IF a.low # b.low THEN a.low - b.low
    ELSE localeCompare(a.book.name, b.book.name)

\* x put behind the elements of a sorted list that do not come after it
insertSorted(sorted, x) ==
    LET k == Cardinality({i \in 1..Len(sorted) : compareLowName(sorted[i], x) <= 0})
    IN  SubSeq(sorted, 1, k) \o <<x>> \o SubSeq(sorted, k + 1, Len(sorted))

\* Array.prototype.sort with that comparator (stable)
RECURSIVE sortLowName(_)
sortLowName(keyed) ==
    IF keyed = <<>> THEN <<>>
    ELSE insertSorted(sortLowName(SubSeq(keyed, 1, Len(keyed) - 1)),
                      keyed[Len(keyed)])

unkeyed(keyed) == [i \in 1..Len(keyed) |-> keyed[i].book]

allBooks(list) == unkeyed(sortLowName(keyedByTarget(list)))

getAllBooks ==
    /\ op' = [name |-> "getAllBooks", result |-> allBooks(books)]
    /\ UNCHANGED <<store, counters, now, calls>>

\* the filter of searchBooks
matchesQuery(b, q) ==
    \/ includes(toLowerCase(b.name), q)
    \/ includes(toLowerCase(b.author), q)

foundBooks(list, query) ==
    LET q == toLowerCase(query)
    IN  unkeyed(sortLowName(keyedByThree(
            SelectSeq(list, LAMBDA b : matchesQuery(b, q)))))

searchBooks(query) ==
    /\ op' = [name |-> "searchBooks", query |-> query,
              result |-> foundBooks(books, query)]
    /\ UNCHANGED <<store, counters, now, calls>>

\* a low-stock filter with a strict comparison
lowStockBooksBelowTarget(list) ==
    SelectSeq(list, LAMBDA b : b.stock < orDefault(b.targetStock, 3) \/ b.stock = 0)

\* the filter of getLowStockBooks
lowStockBooks(list) == SelectSeq(list, isLowStock)

getLowStockBooks ==
    /\ op' = [name |-> "getLowStockBooks", result |-> lowStockBooks(books)]
    /\ UNCHANGED <<store, counters, now, calls>>

----------------------------------------------------------------------------
(* lib/db.ts: the date queries *)

\* the comparator (a, b) => new Date(b.date).getTime() - new Date(a.date).getTime()
newestFirst(a, b) == getTime(b.date).v - getTime(a.date).v

\* x put behind the records of a sorted list that do not come after it
insertByDate(sorted, x) ==
    LET k == Cardinality({i \in 1..Len(sorted) : newestFirst(sorted[i], x) <= 0})
    IN  SubSeq(sorted, 1, k) \o <<x>> \o SubSeq(sorted, k + 1, Len(sorted))

\* Array.prototype.sort with that comparator (stable)
RECURSIVE sortByDate(_)
sortByDate(list) ==
    IF list = <<>> THEN <<>>
    ELSE insertByDate(sortByDate(SubSeq(list, 1, Len(list) - 1)),
                      list[Len(list)])

\* x >= y and x < y on time values; a comparison with NaN is false
atLeast(x, y) == ~isNaN(x) /\ ~isNaN(y) /\ x.v >= y.v
lessThan(x, y) == ~isNaN(x) /\ ~isNaN(y) /\ x.v < y.v

\* new Date(from.getFullYear(), from.getMonth(), from.getDate()).getTime()
startOfDay(from, tz) == IF isNaN(from) THEN NaN ELSE Num(startOfLocalDay(from.v, tz))

\* fromTime + 86400000
plusDay(fromTime) == IF isNaN(fromTime) THEN NaN ELSE Num(fromTime.v + Day)

\* getSalesFromDate whose window takes the end of the day in
salesFromDateToEndOfDay(list, fromDate, tz) ==
    LET fromTime == startOfDay(getTime(fromDate), tz)
        endTime == plusDay(fromTime)
        inDay(s) == /\ atLeast(getTime(s.date), fromTime)
                    /\ atLeast(endTime, getTime(s.date))
    IN  sortByDate(SelectSeq(list, inDay))

\* the Sales getSalesFromDate resolves to
salesFromDate(list, fromDate, tz) ==
    LET fromTime == startOfDay(getTime(fromDate), tz)
        endTime == plusDay(fromTime)
        inDay(s) == /\ atLeast(getTime(s.date), fromTime)
                    /\ lessThan(getTime(s.date), endTime)
    IN  sortByDate(SelectSeq(list, inDay))

getSalesFromDate(fromDate, tz) ==
    /\ op' = [name |-> "getSalesFromDate", fromDate |-> fromDate, tz |-> tz,
              result |-> salesFromDate(sales, fromDate, tz)]
    /\ UNCHANGED <<store, counters, now, calls>>

\* the Expenses getExpensesFromDate resolves to
expensesFromDate(list, fromDate) ==
    LET from == getTime(fromDate)
        since(e) == atLeast(getTime(e.date), from)
    IN  sortByDate(SelectSeq(list, since))

getExpensesFromDate(fromDate) ==
    /\ op' = [name |-> "getExpensesFromDate", fromDate |-> fromDate,
              result |-> expensesFromDate(expenses, fromDate)]
    /\ UNCHANGED <<store, counters, now, calls>>

----------------------------------------------------------------------------
(* app/analytics.tsx *)

Filters == {"Today", "Week", "Month", "Custom"}

\* the Date getFromDate(f) returns when new Date() is t and the zone is tz
getFromDate(f, t, tz, selectedDate) ==
    CASE f = "Today" -> setHoursMin(t, tz, 0, 0)
      [] f = "Week" -> LET day == orDefault(getDay(t, tz), 7)
                       IN  IF day # 1 THEN setHours(t, tz, -24 * (day - 1))
                           ELSE setHoursMin(t, tz, 0, 0)
      [] f = "Month" -> setHoursMin(setDate(t, tz, 1), tz, 0, 0)
      [] f = "Custom" -> selectedDate

\* the stats loadData sets from the Sales and Expenses it was given
analyticsStats(salesData, expenseData) ==
    LET amountOf(s) == orDefault(s.totalAmount, 0)
        profitOf(s) == orDefault(s.profit, 0)
        expenseOf(e) == orDefault(e.amount, 0)
        totalRevenue == reduceSum(salesData, amountOf, 0)
        grossProfit == reduceSum(salesData, profitOf, 0)
        totalExpenses == reduceSum(expenseData, expenseOf, 0)
    IN  [revenue |-> totalRevenue, grossProfit |-> grossProfit,
         totalExpenses |-> totalExpenses,
         netProfit |-> grossProfit - totalExpenses,
         salesCount |-> Len(salesData)]

\* loadData with the filter f and the picked date selectedDate
loadData(f, t, tz, selectedDate) ==
    /\ LET fromDate == getFromDate(f, t, tz, selectedDate)
           salesData == salesFromDate(sales, isoString(fromDate), tz)
           expenseData == expensesFromDate(expenses, isoString(fromDate))
       IN  op' = [name |-> "loadData", filter |-> f, t |-> t, tz |-> tz,
                  fromDate |-> fromDate,
                  salesData |-> salesData, expenseData |-> expenseData,
                  stats |-> analyticsStats(salesData, expenseData)]
    /\ UNCHANGED <<store, counters, now, calls>>

----------------------------------------------------------------------------
(* lib/restore-service.ts *)

isValidDate(str) == str # "" /\ str \in ValidDates

isValidNumber(val) ==
    /\ val.k # "undef"
    /\ val # Str("")
    /\ ~isNaN(Number(val))

\* a row error message that numbers the rows from 0
rowErrorZeroBased(sheet, index, text) ==
    sheet \o " row " \o numToString(index) \o ": " \o text

\* the row error message `${sheet} row ${index + 1}: ${text}`
rowError(sheet, index, text) ==
    sheet \o " row " \o numToString(index + 1) \o ": " \o text

\* validators return the record, or the error pushed when they return null
valid(rec) == [ok |-> TRUE, value |-> rec]
invalid(err) == [ok |-> FALSE, error |-> err]

validateBookRow(row, index) ==
    LET id == parseInt(cell(row, "id"))
        name == trim(stringOr(cell(row, "name"), ""))
        costPrice == numOr(Number(cell(row, "costPrice")), 0)
        sellPrice == numOr(Number(cell(row, "sellPrice")), 0)
        stock == Max(0, numOr(parseInt(cell(row, "stock")), 0))
        targetStock == numOr(parseInt(cell(row, "targetStock")), 5)
    IN  IF isNaN(id) \/ id.v <= 0
        THEN invalid(rowError("Books", index, "Invalid id"))
        ELSE IF name = ""
        THEN invalid(rowError("Books", index, "Missing name"))
        ELSE valid([id |-> id.v, name |-> name,
                    author |-> trim(stringOr(cell(row, "author"), "")),
                    isbn |-> trim(stringOr(cell(row, "isbn"), "")),
                    costPrice |-> Max(0, costPrice),
                    sellPrice |-> Max(0, sellPrice),
                    stock |-> stock,
                    targetStock |-> Max(1, targetStock)])

validateSaleRow(row, index) ==
    LET id == parseInt(cell(row, "id"))
        date == stringOr(cell(row, "date"), "")
    IN  IF isNaN(id) \/ id.v <= 0
        THEN invalid(rowError("Sales", index, "Invalid id"))
        ELSE IF ~isValidDate(date)
        THEN invalid(rowError("Sales", index, "Invalid date \"" \o date \o "\""))
        ELSE valid([id |-> id.v,
                    bookId |-> numOr(parseInt(cell(row, "bookId")), 0),
                    bookName |-> trim(stringOr(cell(row, "bookName"), "")),
                    qty |-> Max(0, numOr(parseInt(cell(row, "qty")), 0)),
                    totalAmount |-> Max(0, numOr(Number(cell(row, "totalAmount")), 0)),
                    profit |-> numOr(Number(cell(row, "profit")), 0),
                    date |-> date])

\* validateExpenseRow without the isValidNumber test of the amount cell
validateExpenseRowNoPresence(row, index) ==
    LET id == parseInt(cell(row, "id"))
        amount == Number(cell(row, "amount"))
        date == stringOr(cell(row, "date"), "")
    IN  IF isNaN(id) \/ id.v <= 0
        THEN invalid(rowError("Expenses", index, "Invalid id"))
        ELSE IF isNaN(amount) \/ amount.v < 0
        THEN invalid(rowError("Expenses", index, "Invalid amount"))
        ELSE IF ~isValidDate(date)
        THEN invalid(rowError("Expenses", index, "Invalid date \"" \o date \o "\""))
        ELSE valid([id |-> id.v,
                    type |-> trim(stringOr(cell(row, "type"), "Misc")),
                    amount |-> amount.v,
                    description |-> trim(stringOr(cell(row, "description"), "")),
                    date |-> date])

validateExpenseRow(row, index) ==
    LET id == parseInt(cell(row, "id"))
        amount == Number(cell(row, "amount"))
        date == stringOr(cell(row, "date"), "")
    IN  IF isNaN(id) \/ id.v <= 0
        THEN invalid(rowError("Expenses", index, "Invalid id"))
        ELSE IF ~isValidNumber(cell(row, "amount")) \/ amount.v < 0
        THEN invalid(rowError("Expenses", index, "Invalid amount"))
        ELSE IF ~isValidDate(date)
        THEN invalid(rowError("Expenses", index, "Invalid date \"" \o date \o "\""))
        ELSE valid([id |-> id.v,
                    type |-> trim(stringOr(cell(row, "type"), "Misc")),
                    amount |-> amount.v,
                    description |-> trim(stringOr(cell(row, "description"), "")),
                    date |-> date])

\* a loop body that pushes every validated record
pushAlways(acc, rec) ==
    [acc EXCEPT !.seen = @ \cup {rec.id}, !.list = Append(@, rec)]

\* lines 180-183: `if (book && !seenBookIds.has(book.id)) { add; push }`
pushUnseen(acc, rec) ==
    IF rec.id \in acc.seen THEN acc
    ELSE [acc EXCEPT !.seen = @ \cup {rec.id}, !.list = Append(@, rec)]

\* the rows.forEach loop of one sheet: validate, drop ids already seen
RECURSIVE validateRows(_, _, _, _)
validateRows(rows, i, validate(_, _), acc) ==
    IF i > Len(rows) THEN acc
    ELSE LET r == validate(rows[i], i - 1)
             next == IF ~r.ok
                     THEN [acc EXCEPT !.errors = Append(@, r.error)]
                     ELSE pushUnseen(acc, r.value)
         IN  validateRows(rows, i + 1, validate, next)

\* wb.SheetNames.find(s => s.toLowerCase() === lower) || ''
findSheet(wb, lower) ==
    IF \E i \in 1..Len(wb) : toLowerCase(wb[i].name) = lower
    THEN LET i == CHOOSE j \in 1..Len(wb) :
                     /\ toLowerCase(wb[j].name) = lower
                     /\ \A h \in 1..(j - 1) : toLowerCase(wb[h].name) # lower
         IN  wb[i].name
    ELSE ""

\* parseSheetData(wb, sheetName), and [] for the '' of a sheet not found
parseSheetData(wb, sheetName) ==
    IF \E i \in 1..Len(wb) : wb[i].name = sheetName
    THEN (CHOOSE sh \in {wb[i] : i \in 1..Len(wb)} : sh.name = sheetName).rows
    ELSE <<>>

\* lines 176-204: the three validated lists and the shared errors array
validated(wb) ==
    LET rawBooks == parseSheetData(wb, findSheet(wb, "books"))
        rawSales == parseSheetData(wb, findSheet(wb, "sales"))
        rawExpenses == parseSheetData(wb, findSheet(wb, "expenses"))
        start(errs) == [list |-> <<>>, seen |-> {}, errors |-> errs]
        b == validateRows(rawBooks, 1, validateBookRow, start(<<>>))
        s == validateRows(rawSales, 1, validateSaleRow, start(b.errors))
        e == validateRows(rawExpenses, 1, validateExpenseRow, start(s.errors))
    IN  [books |-> b.list, sales |-> s.list, expenses |-> e.list,
         errors |-> e.errors]

(* Workbooks offered to the importer *)

bookRowA == [id |-> Num(1), name |-> Str(" A "), author |-> Str(""),
             isbn |-> Str(""), costPrice |-> Num(2), sellPrice |-> Num(3),
             stock |-> Num(2), targetStock |-> Str("")]
bookRowB == [id |-> Str("2x"), name |-> Str("b"), author |-> Str(""),
             isbn |-> Str(""), costPrice |-> Str("-5"), sellPrice |-> Str("abc"),
             stock |-> Num(-1), targetStock |-> Num(0)]
bookRowDup == [bookRowA EXCEPT !.name = Str("b"), !.stock = Num(3)]
bookRowBadId == [bookRowA EXCEPT !.id = Str("abc")]
bookRowNoName == [bookRowB EXCEPT !.name = Str("  ")]

saleRowA == [id |-> Num(1), bookId |-> Num(1), bookName |-> Str("A"),
             qty |-> Num(1), totalAmount |-> Num(1), profit |-> Num(-1),
             date |-> Str("2023-12-31")]
saleRowBadDate == [saleRowA EXCEPT !.id = Num(2), !.date = Str("not-a-date")]
saleRowNoId == [saleRowA EXCEPT !.id = Str("")]
saleRowDup == [saleRowA EXCEPT !.qty = Num(2), !.profit = Num(0)]

expenseRowA == [id |-> Num(1), type |-> Str(""), amount |-> Num(3),
                description |-> Str(""), date |-> Str("2023-12-31")]
expenseRowNeg == [expenseRowA EXCEPT !.id = Num(2), !.amount = Num(-5)]
expenseRowEmpty == [expenseRowA EXCEPT !.id = Num(3), !.amount = Str("")]
expenseRowDup == [expenseRowA EXCEPT !.amount = Num(7)]

sheet(name, rows) == <<[name |-> name, rows |-> rows]>>

BooksSheets == {<<>>, sheet("BOOKS", <<bookRowA, bookRowDup>>),
                sheet("Books", <<bookRowBadId, bookRowB>>),
                sheet("books", <<bookRowBadId, bookRowNoName>>)}
SalesSheets == {<<>>, sheet("Sales", <<saleRowA, saleRowDup>>),
                sheet("sales", <<saleRowBadDate, saleRowNoId>>)}
ExpensesSheets == {<<>>, sheet("Expenses", <<expenseRowA, expenseRowDup>>),
                   sheet("expenses", <<expenseRowNeg, expenseRowEmpty>>)}
OtherSheets == {sheet("Notes", <<>>)}

Workbooks == {b \o s \o e : b \in BooksSheets, s \in SalesSheets,
                            e \in ExpensesSheets}
             \cup {o \o e : o \in OtherSheets, e \in ExpensesSheets}

(* Workbooks restored before the Book queries *)

queryRow(id, n, a, s) ==
    [id |-> Num(id), name |-> Str(n), author |-> Str(a), isbn |-> Str(""),
     costPrice |-> Num(2), sellPrice |-> Num(3), stock |-> Num(s),
     targetStock |-> Num(5)]

QueryFirstRows ==
    {queryRow(1, "b", a, s) : a \in {"", "Ab"}, s \in {0, 4, 5, 6}}

QuerySecondRows ==
    {queryRow(2, "A", "", s) : s \in {0, 4, 5, 6}} \cup {queryRow(2, "b", "", 6)}

QueryWorkbooks ==
    {sheet("Books", <<r1, r2>>) : r1 \in QueryFirstRows, r2 \in QuerySecondRows}

Queries == {"A", "B", "AB"}

(* Single rows that differ from a valid row in one cell *)

NumCells == {Num(0), Num(-5), Str(""), Str("  "), Str("2x"), Str("abc"),
             Undefined}
TextCells == {Str("  "), Str("b "), Num(7), Undefined}
DateCells == {Str("not-a-date"), Str(""), Undefined}

BookRowVariants ==
    {bookRowA}
    \cup {[bookRowA EXCEPT ![col] = c] :
            col \in {"id", "costPrice", "sellPrice", "stock", "targetStock"},
            c \in NumCells}
    \cup {[bookRowA EXCEPT !.name = c] : c \in TextCells}

SaleRowVariants ==
    {saleRowA}
    \cup {[saleRowA EXCEPT ![col] = c] :
            col \in {"id", "bookId", "qty", "totalAmount", "profit"},
            c \in NumCells}
    \cup {[saleRowA EXCEPT !.date = c] : c \in DateCells}

ExpenseRowVariants ==
    {expenseRowA}
    \cup {[expenseRowA EXCEPT ![col] = c] : col \in {"id", "amount"}, c \in NumCells}
    \cup {[expenseRowA EXCEPT !.date = c] : c \in DateCells}

RowWorkbooks ==
    {sheet("Books", <<r>>) : r \in BookRowVariants}
    \cup {sheet("Sales", <<r>>) : r \in SaleRowVariants}
    \cup {sheet("Books", <<>>) \o sheet("Expenses", <<r>>) : r \in ExpenseRowVariants}

\* workbooks whose Sales and Expenses carry the dates of three days
RowDates == {"2023-12-31", TimeStr[1], TimeStr[2]}
datedSale(id, date) == [saleRowA EXCEPT !.id = Num(id), !.date = Str(date)]
datedExpense(id, date) == [expenseRowA EXCEPT !.id = Num(id), !.date = Str(date)]
DatedWorkbooks ==
    {sheet("Sales", <<datedSale(1, d1), datedSale(2, d2)>>)
        \o sheet("Expenses", <<datedExpense(1, d3), datedExpense(2, TimeStr[2])>>) :
            d1 \in RowDates, d2 \in {TimeStr[1], isoString(557), TimeStr[2]},
            d3 \in RowDates}

\* validated(wb) of every workbook offered, computed once
validatedOf == [wb \in Workbooks \cup QueryWorkbooks \cup RowWorkbooks
                       \cup DatedWorkbooks |-> validated(wb)]

\* a write phase whose rollback writes the new data again
writePhaseRollbackNew(data, f) ==
    LET currentData == getRawData
        cleared == clearedState(current, f.clear)
        wrote == IF cleared.threw THEN cleared
                 ELSE restoredState(cleared, data, f.write)
        back == IF wrote.threw
                THEN restoredState(wrote, data, f.back)
                ELSE wrote
    IN  [slots |-> back.slots, ctrs |-> back.ctrs, failed |-> wrote.threw,
         rollbackFailed |-> wrote.threw /\ back.threw,
         snapshot |-> currentData]

\* lines 214-232: snapshot, clear, write, and one rollback attempt when the
\* write throws; f.clear, f.write and f.back are the pairs each multiSet stored
writePhase(data, f) ==
    LET currentData == getRawData
        cleared == clearedState(current, f.clear)
        wrote == IF cleared.threw THEN cleared
                 ELSE restoredState(cleared, data, f.write)
        back == IF wrote.threw
                THEN restoredState(wrote, currentData, f.back)
                ELSE wrote
    IN  [slots |-> back.slots, ctrs |-> back.ctrs, failed |-> wrote.threw,
         rollbackFailed |-> wrote.threw /\ back.threw,
         snapshot |-> currentData]

\* the message of the error a rejected multiSet carries
StorageError == "Failed to write to storage"

\* outcomes of the multiSet calls of the write phase
Stored == 0..MaxStored
WriteFaults ==
    {[clear |-> 4, write |-> 4, back |-> 4]}
    \cup {[clear |-> c, write |-> 4, back |-> k] : c \in Stored, k \in Stored \cup {4}}
    \cup {[clear |-> 4, write |-> w, back |-> k] : w \in Stored, k \in Stored \cup {4}}

\* a sheet check that is content with an Expenses sheet
hasRequiredSheetOrExpenses(wb) ==
    \E i \in 1..Len(wb) : toLowerCase(wb[i].name) \in {"books", "sales", "expenses"}

\* lines 156-160: hasBooks || hasSales
hasRequiredSheet(wb) ==
    LET sheetNames == [i \in 1..Len(wb) |-> toLowerCase(wb[i].name)]
        hasBooks == \E i \in 1..Len(wb) : sheetNames[i] = "books"
        hasSales == \E i \in 1..Len(wb) : sheetNames[i] = "sales"
    IN  hasBooks \/ hasSales

\* an empty-data check whose last comparison can never hold
noValidDataNever(v) ==
    Len(v.books) = 0 /\ Len(v.sales) = 0 /\ Len(v.expenses) < 0

\* line 206: nothing valid in any of the three lists
noValidData(v) ==
    Len(v.books) = 0 /\ Len(v.sales) = 0 /\ Len(v.expenses) = 0

restoreFromExcel(file, f) ==
    LET wb == file.sheets
        v == validatedOf[wb]
        data == [books |-> v.books, sales |-> v.sales, expenses |-> v.expenses]
        w == writePhase(data, f)
        early(result) == [name |-> "restoreFromExcel", wrote |-> "nothing",
                          result |-> result]
    IN  /\ UNCHANGED <<now, calls>>
        /\ IF file.kind = "unreadable"
           THEN /\ op' = early([success |-> FALSE, errors |-> <<"Unknown error">>,
                        message |-> "Restore failed due to an unexpected error"])
                /\ UNCHANGED <<store, counters>>
           ELSE IF file.kind = "corrupt"
           THEN /\ op' = early([success |-> FALSE,
                        errors |-> <<"File is corrupted or not a valid Excel file">>,
                        message |-> "Failed to parse Excel file"])
                /\ UNCHANGED <<store, counters>>
           ELSE IF ~hasRequiredSheet(wb)
           THEN /\ op' = early([success |-> FALSE,
                        errors |-> <<"Required sheets \"Books\" or \"Sales\" not found in workbook">>,
                        message |-> "Invalid backup file structure"])
                /\ UNCHANGED <<store, counters>>
           ELSE IF noValidData(v)
           THEN /\ op' = early([success |-> FALSE,
                        errors |-> Append(v.errors, "No valid data found to restore"),
                        message |-> "Restore file contains no valid data"])
                /\ UNCHANGED <<store, counters>>
           ELSE /\ written(w.slots, w.ctrs)
                /\ op' = [name |-> "restoreFromExcel",
                          wrote |-> IF ~w.failed THEN "data"
                                    ELSE IF w.rollbackFailed THEN "rollbackFailed"
                                    ELSE "rolledBack",
                          result |->
                       IF w.failed
                       THEN [success |-> FALSE,
                             errors |-> Append(v.errors, "Restore failed: " \o StorageError),
                             message |-> "Restore failed, previous data has been kept"]
                       ELSE [success |-> TRUE,
                             imported |-> [books |-> Len(v.books),
                                           sales |-> Len(v.sales),
                                           expenses |-> Len(v.expenses)],
                             errors |-> v.errors,
                             message |-> "Restored "
                                 \o numToString(Len(v.books)) \o " books, "
                                 \o numToString(Len(v.sales)) \o " sales, "
                                 \o numToString(Len(v.expenses)) \o " expenses"]]

----------------------------------------------------------------------------
(* Inputs *)

ExpenseForms == { [type |-> "Misc", amount |-> a, description |-> "",
                   date |-> toISOString(now)] : a \in ExpenseAmounts }

Files == {[kind |-> "unreadable"], [kind |-> "corrupt"]}
         \cup {[kind |-> "workbook", sheets |-> wb] : wb \in Workbooks}

NoFault == [clear |-> 4, write |-> 4, back |-> 4]

----------------------------------------------------------------------------
(* The store driven by awaited calls *)

Init ==
    /\ books = <<>>
    /\ sales = <<>>
    /\ expenses = <<>>
    /\ restocks = <<>>
    /\ nextBookId = 1
    /\ nextSaleId = 1
    /\ nextExpenseId = 1
    /\ nextRestockId = 1
    /\ now = 1
    /\ op = [name |-> "init"]
    /\ calls = <<>>

AddBook == \E book \in BookForms : addBook(book)
UpdateBook == \E book \in BookForms, id \in Ids : updateBook(assign(book, [id |-> id]))
DeleteBook == \E id \in Ids : deleteBook(id)
UpdateStock == \E id \in Ids, delta \in Deltas : updateStock(id, delta)
RecordSale == \E bookId \in Ids, a \in SaleArgs :
                 recordSale(bookId, a.qty, a.totalAmount, a.costPrice, "A")
AddExpense == \E expense \in ExpenseForms : addExpense(expense)
UpdateExpense == \E expense \in ExpenseForms, id \in Ids :
                    updateExpense(assign(expense, [id |-> id]))
DeleteExpense == \E id \in Ids : deleteExpense(id)
\* a restore whose storage writes all succeed
RestoreFromExcel == \E file \in Files : restoreFromExcel(file, NoFault)

\* workbooks with valid rows, restored while a storage write fails
FaultFiles ==
    {[kind |-> "workbook", sheets |-> wb] :
        wb \in {sheet("BOOKS", <<bookRowA, bookRowDup>>)
                    \o sheet("Sales", <<saleRowA, saleRowDup>>)
                    \o sheet("Expenses", <<expenseRowA, expenseRowDup>>),
                sheet("Books", <<bookRowBadId, bookRowB>>),
                sheet("Sales", <<saleRowA, saleRowDup>>)
                    \o sheet("expenses", <<expenseRowNeg, expenseRowEmpty>>)}}

RestoreFromExcelFaulty ==
    \E file \in FaultFiles, f \in WriteFaults \ {NoFault} :
        restoreFromExcel(file, f)

Next ==
    \/ AddBook
    \/ UpdateBook
    \/ DeleteBook
    \/ UpdateStock
    \/ RecordSale
    \/ AddExpense
    \/ UpdateExpense
    \/ DeleteExpense
    \/ getDashboardStats
    \/ clearAllData
    \/ restoreRaw

Spec == Init /\ [][Next]_vars

----------------------------------------------------------------------------
(* The store and the restore importer *)

\* the calls that fill the store before a restore
SeedBook == addBook(bookForm("A", 2))
SeedSale == recordSale(1, 1, 4, 2, "A")

NextRestore ==
    \/ SeedBook
    \/ SeedSale
    \/ AddExpense
    \/ RestoreFromExcel
    \/ RestoreFromExcelFaulty

SpecRestore == Init /\ [][NextRestore]_vars

----------------------------------------------------------------------------
(* The Book queries over restored stores *)

QueryFiles == {[kind |-> "workbook", sheets |-> wb] : wb \in QueryWorkbooks}

RestoreQueryFile == \E file \in QueryFiles : restoreFromExcel(file, NoFault)
SearchBooks == \E query \in Queries : searchBooks(query)

NextQuery ==
    \/ RestoreQueryFile
    \/ getAllBooks
    \/ SearchBooks
    \/ getLowStockBooks

SpecQuery == Init /\ [][NextQuery]_vars

----------------------------------------------------------------------------
(* The row validators and the restore of single rows *)

RowFiles == {[kind |-> "workbook", sheets |-> wb] : wb \in RowWorkbooks}

\* one call of a validator on the first data row of its sheet
ValidateBookRow ==
    /\ \E row \in BookRowVariants :
          op' = [name |-> "validateBookRow", row |-> row,
                 result |-> validateBookRow(row, 0)]
    /\ UNCHANGED <<store, counters, now, calls>>

ValidateSaleRow ==
    /\ \E row \in SaleRowVariants :
          op' = [name |-> "validateSaleRow", row |-> row,
                 result |-> validateSaleRow(row, 0)]
    /\ UNCHANGED <<store, counters, now, calls>>

ValidateExpenseRow ==
    /\ \E row \in ExpenseRowVariants :
          op' = [name |-> "validateExpenseRow", row |-> row,
                 result |-> validateExpenseRow(row, 0)]
    /\ UNCHANGED <<store, counters, now, calls>>

RestoreRowFile == \E file \in RowFiles : restoreFromExcel(file, NoFault)

NextRows ==
    \/ ValidateBookRow
    \/ ValidateSaleRow
    \/ ValidateExpenseRow
    \/ RestoreRowFile

SpecRows == Init /\ [][NextRows]_vars

----------------------------------------------------------------------------
(* The stock ledger: Books that are added, restocked and sold *)

\* the forms of the add-book screen, one with a negative stock typed in
LedgerForms == {bookForm("A", -2), bookForm("A", 2), bookForm("b", 0)}

LedgerAddBook == \E book \in LedgerForms : addBook(book)

\* confirmRestock: a positive quantity
LedgerRestock == \E id \in Ids, delta \in 1..MaxStock : updateStock(id, delta)

\* confirmSale: a quantity the Book has in stock
LedgerSale ==
    \E bookId \in Ids, qty \in 1..MaxStock :
        LET idx == findIndex(books, bookId)
        IN  /\ idx # 0
            /\ qty <= books[idx].stock
            /\ recordSale(bookId, qty, qty * books[idx].sellPrice,
                          books[idx].costPrice, books[idx].name)

NextLedger ==
    \/ LedgerAddBook
    \/ LedgerRestock
    \/ LedgerSale

SpecLedger == Init /\ [][NextLedger]_vars

----------------------------------------------------------------------------
(* The Book ids over deletions, restores and process starts *)

\* a restore whose write fails and whose rollback completes
RestoreRolledBack ==
    \E file \in FaultFiles, f \in WriteFaults \ {NoFault} :
        /\ restoreFromExcel(file, f)
        /\ op'.wrote = "rolledBack"

NextIds ==
    \/ AddBook
    \/ DeleteBook
    \/ restoreRaw
    \/ restart
    \/ RestoreRolledBack

SpecIds == Init /\ [][NextIds]_vars

----------------------------------------------------------------------------
(* The date queries and the analytics screen over restored stores *)

DatedFiles == {[kind |-> "workbook", sheets |-> wb] : wb \in DatedWorkbooks}

\* the values of new Date(): Monday, Tuesday and Sunday at 09:17Z
ClockTimes == {557, Day + 557, 6 * Day + 557}
\* UTC and India Standard Time
TimeZones == {0, 330}
\* the dates picked for the Custom filter
SelectedDates == {557, Day + 17}
\* the fromDate arguments of the date queries
QueryDates == {isoString(t) : t \in {0, 17, Day, Day + 557, 1110 - Day}}

RestoreDatedFile == \E file \in DatedFiles : restoreFromExcel(file, NoFault)
GetSalesFromDate ==
    \E fromDate \in QueryDates, tz \in TimeZones : getSalesFromDate(fromDate, tz)
GetExpensesFromDate == \E fromDate \in QueryDates : getExpensesFromDate(fromDate)

\* one call of getFromDate
GetFromDate ==
    /\ \E f \in Filters, t \in ClockTimes, tz \in TimeZones,
          selectedDate \in SelectedDates :
          op' = [name |-> "getFromDate", filter |-> f, t |-> t, tz |-> tz,
                 selectedDate |-> selectedDate,
                 result |-> getFromDate(f, t, tz, selectedDate)]
    /\ UNCHANGED <<store, counters, now, calls>>

LoadData ==
    \E f \in Filters, t \in ClockTimes, tz \in TimeZones,
       selectedDate \in SelectedDates : loadData(f, t, tz, selectedDate)

NextAnalytics ==
    \/ RestoreDatedFile
    \/ GetSalesFromDate
    \/ GetExpensesFromDate
    \/ GetFromDate
    \/ LoadData

SpecAnalytics == Init /\ [][NextAnalytics]_vars

----------------------------------------------------------------------------
(* lib/db.ts, await by await.  A call is a frame of `calls`; a step runs   *)
(* the call from one await to the next.  AsyncStorage serves its requests  *)
(* in the order they are issued, so a getItem reads, and a setItem writes, *)
(* in the step that issues it.                                             *)

\* the outcomes of AsyncStorage.getItem followed by JSON.parse
ReadOutcomes == {"ok", "error"}

\* getBooks / getSales / getExpenses / getRestocks: [] when the read throws
read(list, r) == IF r = "ok" THEN list ELSE <<>>

\* Array.prototype.push that drops what the array held
pushedAlone(list, rec) == <<rec>>

\* Array.prototype.push on the array a call has read
pushed(list, rec) == Append(list, rec)

\* a Sale array saved without the new Sale
salesWithout(list, sale) == list

\* the Sale array recordSale saves
salesWith(list, sale) == pushed(list, sale)

frame(call, pc, arg, locals) ==
    [call |-> call, pc |-> pc, at |-> "", arg |-> arg, locals |-> locals,
     overlapped |-> FALSE]

inFlight(f) == f.pc \notin {"done", "killed"}

\* no call is between two of its awaits
Idle == \A i \in 1..Len(calls) : ~inFlight(calls[i])

\* a call begins: it overlaps the calls that have not returned
begun(f) ==
    LET busy == \E i \in 1..Len(calls) : inFlight(calls[i])
    IN  Append([i \in 1..Len(calls) |->
                   IF inFlight(calls[i]) THEN [calls[i] EXCEPT !.overlapped = TRUE]
                   ELSE calls[i]],
               [f EXCEPT !.overlapped = busy])

\* frame i moves to the await pc with more local variables
moved(i, pc, locals) ==
    [calls EXCEPT ![i] = [@ EXCEPT !.pc = pc, !.locals = assign(@, locals)]]

at(i, call, pc) ==
    /\ i \in 1..Len(calls)
    /\ calls[i].call \in call
    /\ calls[i].pc = pc

\* addBook up to `await getBooks()`
callAddBook(book, r) ==
    /\ Len(calls) < MaxCalls
    /\ calls' = begun(frame("addBook", "getBooks", [book |-> book],
                            [books |-> read(books, r)]))
    /\ op' = [name |-> "call", call |-> "addBook", read |-> r]
    /\ UNCHANGED <<store, counters, now>>

\* addBook from the books read up to `await saveBooks(books)`
addBookSave(i) ==
    /\ at(i, {"addBook"}, "getBooks")
    /\ LET f == calls[i]
           date == toISOString(now)
           newBook == assign(f.arg.book, [id |-> nextBookId, lastStockedAt |-> date])
       IN  /\ books' = pushed(f.locals.books, newBook)
           /\ nextBookId' = nextBookId + 1
           /\ calls' = moved(i, "saveBooks", [newBook |-> newBook, date |-> date])
           /\ op' = [name |-> "step", call |-> "addBook", frame |-> i,
                     wrote |-> "books", assigned |-> "books", id |-> newBook.id]
    /\ UNCHANGED <<sales, expenses, restocks, nextSaleId, nextExpenseId,
                   nextRestockId, now>>

\* addBook from the saved books into recordRestock up to `await getRestocks()`
addBookRestock(i, r) ==
    /\ at(i, {"addBook"}, "saveBooks")
    /\ LET b == calls[i].locals.newBook
       IN  calls' = moved(i, "getRestocks",
                          [restocks |-> read(restocks, r), bookId |-> b.id,
                           bookName |-> b.name, qtyAdded |-> b.stock])
    /\ op' = [name |-> "step", call |-> "addBook", frame |-> i, read |-> r]
    /\ UNCHANGED <<store, counters, now>>

\* recordRestock from the restocks read up to `await saveRestocks(restocks)`
recordRestockSave(i) ==
    /\ at(i, {"addBook", "updateStock"}, "getRestocks")
    /\ LET l == calls[i].locals
           restock == newRestock(l.bookId, l.bookName, l.qtyAdded, l.date)
       IN  /\ restocks' = pushed(l.restocks, restock)
           /\ nextRestockId' = nextRestockId + 1
           /\ calls' = moved(i, "saveRestocks", [restock |-> restock])
           /\ op' = [name |-> "step", call |-> "recordRestock", frame |-> i,
                     wrote |-> "restocks", assigned |-> "restocks",
                     id |-> restock.id]
    /\ UNCHANGED <<books, sales, expenses, nextBookId, nextSaleId,
                   nextExpenseId, now>>

\* addBook from the saved restocks to its return
addBookReturn(i) ==
    /\ at(i, {"addBook"}, "saveRestocks")
    /\ calls' = moved(i, "done", << >>)
    /\ op' = [name |-> "return", call |-> "addBook", frame |-> i]
    /\ UNCHANGED <<store, counters, now>>

\* updateStock up to `await getBooks()`
callUpdateStock(id, delta, r) ==
    /\ Len(calls) < MaxCalls
    /\ calls' = begun(frame("updateStock", "getBooks", [id |-> id, delta |-> delta],
                            [books |-> read(books, r)]))
    /\ op' = [name |-> "call", call |-> "updateStock", read |-> r]
    /\ UNCHANGED <<store, counters, now>>

\* updateStock from the books read: to its return when the id is not
\* found, into recordRestock up to `await getRestocks()` when delta > 0,
\* else through `await saveBooks(books)`
updateStockApply(i, r) ==
    /\ at(i, {"updateStock", "recordSale"}, "getBooks")
    /\ LET f == calls[i]
           idx == findIndex(f.locals.books, f.arg.id)
           date == toISOString(now)
       IN  IF idx = 0
           THEN /\ r = "ok"
                /\ calls' = moved(i, "done", << >>)
                /\ UNCHANGED books
           ELSE LET list == stockedBooks(f.locals.books, idx, f.arg.delta, date)
                IN  IF f.arg.delta > 0
                    THEN /\ calls' = moved(i, "getRestocks",
                                [books |-> list, restocks |-> read(restocks, r),
                                 bookId |-> f.arg.id,
                                 bookName |-> list[idx].name,
                                 qtyAdded |-> f.arg.delta, date |-> date])
                         /\ UNCHANGED books
                    ELSE /\ r = "ok"
                         /\ books' = list
                         /\ calls' = moved(i, "done", [books |-> list])
    /\ op' = [name |-> "step", call |-> "updateStock", frame |-> i, read |-> r]
    /\ UNCHANGED <<sales, expenses, restocks, counters, now>>

\* updateStock from the saved restocks through `await saveBooks(books)`
updateStockSave(i) ==
    /\ at(i, {"updateStock"}, "saveRestocks")
    /\ books' = calls[i].locals.books
    /\ calls' = moved(i, "done", << >>)
    /\ op' = [name |-> "step", call |-> "updateStock", frame |-> i]
    /\ UNCHANGED <<sales, expenses, restocks, counters, now>>

\* recordSale up to `await getSales()`: the Sale has its id already
callRecordSale(bookId, qty, totalAmount, costPrice, bookName, r) ==
    /\ Len(calls) < MaxCalls
    /\ LET sale == newSale(bookId, qty, totalAmount, costPrice, bookName,
                           toISOString(now))
       IN  /\ calls' = begun(frame("recordSale", "getSales",
                                   [id |-> bookId, delta |-> -qty, sale |-> sale],
                                   [sales |-> read(sales, r)]))
           /\ op' = [name |-> "call", call |-> "recordSale", read |-> r,
                     assigned |-> "sales", id |-> sale.id]
    /\ nextSaleId' = nextSaleId + 1
    /\ UNCHANGED <<store, nextBookId, nextExpenseId, nextRestockId, now>>

\* recordSale from the sales read up to `await saveSales(sales)`
recordSaleSave(i) ==
    /\ at(i, {"recordSale"}, "getSales")
    /\ sales' = salesWith(calls[i].locals.sales, calls[i].arg.sale)
    /\ calls' = moved(i, "saveSales", << >>)
    /\ op' = [name |-> "step", call |-> "recordSale", frame |-> i,
              wrote |-> "sales"]
    /\ UNCHANGED <<books, expenses, restocks, counters, now>>

\* recordSale from the saved sales into updateStock up to `await getBooks()`
recordSaleStock(i, r) ==
    /\ at(i, {"recordSale"}, "saveSales")
    /\ calls' = moved(i, "getBooks", [books |-> read(books, r)])
    /\ op' = [name |-> "step", call |-> "recordSale", frame |-> i, read |-> r]
    /\ UNCHANGED <<store, counters, now>>

\* the process is stopped and started again: the calls in flight are gone,
\* the counters are 1 and loadIds() runs up to `await getBooks()`
processStart ==
    /\ Len(calls) < MaxCalls
    /\ calls' = Append([i \in 1..Len(calls) |->
                          IF inFlight(calls[i])
                          THEN [calls[i] EXCEPT !.at = calls[i].pc, !.pc = "killed"]
                          ELSE calls[i]],
                       frame("loadIds", "getBooks", << >>, [books |-> books]))
    /\ nextBookId' = 1
    /\ nextSaleId' = 1
    /\ nextExpenseId' = 1
    /\ nextRestockId' = 1
    /\ op' = [name |-> "processStart"]
    /\ UNCHANGED <<store, now>>

\* loadIds from one read up to the next await
loadIdsRead(i) ==
    /\ \/ /\ at(i, {"loadIds"}, "getBooks")
          /\ calls' = moved(i, "getSales", [sales |-> sales])
       \/ /\ at(i, {"loadIds"}, "getSales")
          /\ calls' = moved(i, "getExpenses", [expenses |-> expenses])
       \/ /\ at(i, {"loadIds"}, "getExpenses")
          /\ calls' = moved(i, "getRestocks", [restocks |-> restocks])
    /\ op' = [name |-> "step", call |-> "loadIds", frame |-> i]
    /\ UNCHANGED <<store, counters, now>>

\* loadIds from the restocks read to its return: the counters are set
loadIdsAssign(i) ==
    /\ at(i, {"loadIds"}, "getRestocks")
    /\ LET l == calls[i].locals
       IN  written(store, loadIds(<<l.books, l.sales, l.expenses, l.restocks>>,
                                  counters))
    /\ calls' = moved(i, "done", << >>)
    /\ op' = [name |-> "return", call |-> "loadIds", frame |-> i]
    /\ UNCHANGED now

----------------------------------------------------------------------------
(* Calls that overlap, and process starts in the middle of a call *)

Frames == 1..MaxCalls

\* calls awaited whole before any call runs step by step
AwaitedAddBook == calls = <<>> /\ addBook(bookForm("A", 2))

\* calls the screens issue without waiting for the calls in flight
CallAddBook == callAddBook(bookForm("b", 0), "ok")
CallUpdateStock == callUpdateStock(1, 1, "ok")
CallRecordSale ==
    LET idx == findIndex(books, 1)
    IN  /\ idx # 0
        /\ 1 <= books[idx].stock
        /\ callRecordSale(1, 1, books[idx].sellPrice, books[idx].costPrice,
                          books[idx].name, "ok")

AddBookSave == \E i \in Frames : addBookSave(i)
AddBookRestock == \E i \in Frames : addBookRestock(i, "ok")
RecordRestockSave == \E i \in Frames : recordRestockSave(i)
AddBookReturn == \E i \in Frames : addBookReturn(i)
UpdateStockApply == \E i \in Frames : updateStockApply(i, "ok")
UpdateStockSave == \E i \in Frames : updateStockSave(i)
RecordSaleSave == \E i \in Frames : recordSaleSave(i)
RecordSaleStock == \E i \in Frames : recordSaleStock(i, "ok")
LoadIdsRead == \E i \in Frames : loadIdsRead(i)
LoadIdsAssign == \E i \in Frames : loadIdsAssign(i)

NextAsync ==
    \/ AwaitedAddBook
    \/ CallAddBook
    \/ CallUpdateStock
    \/ CallRecordSale
    \/ AddBookSave
    \/ AddBookRestock
    \/ RecordRestockSave
    \/ AddBookReturn
    \/ UpdateStockApply
    \/ UpdateStockSave
    \/ RecordSaleSave
    \/ RecordSaleStock
    \/ processStart
    \/ LoadIdsRead
    \/ LoadIdsAssign

SpecAsync == Init /\ [][NextAsync]_vars

----------------------------------------------------------------------------
(* Awaited calls whose storage reads can fail *)

ReadAddBook == \E r \in ReadOutcomes : Idle /\ callAddBook(bookForm("b", 0), r)
ReadUpdateStock == \E r \in ReadOutcomes : Idle /\ callUpdateStock(1, 1, r)
ReadRecordSale ==
    \E r \in ReadOutcomes :
        LET idx == findIndex(books, 1)
        IN  /\ Idle
            /\ idx # 0
            /\ 1 <= books[idx].stock
            /\ callRecordSale(1, 1, books[idx].sellPrice, books[idx].costPrice,
                              books[idx].name, r)
ReadAddBookRestock == \E i \in Frames, r \in ReadOutcomes : addBookRestock(i, r)
ReadUpdateStockApply == \E i \in Frames, r \in ReadOutcomes : updateStockApply(i, r)
ReadRecordSaleStock == \E i \in Frames, r \in ReadOutcomes : recordSaleStock(i, r)

NextReads ==
    \/ AwaitedAddBook
    \/ ReadAddBook
    \/ ReadUpdateStock
    \/ ReadRecordSale
    \/ AddBookSave
    \/ ReadAddBookRestock
    \/ RecordRestockSave
    \/ AddBookReturn
    \/ ReadUpdateStockApply
    \/ UpdateStockSave
    \/ RecordSaleSave
    \/ ReadRecordSaleStock

SpecReads == Init /\ [][NextReads]_vars

----------------------------------------------------------------------------
(* Properties *)

\* list' is list with exactly one record appended
appendedOne(list, list2) ==
    /\ Len(list2) = Len(list) + 1
    /\ SubSeq(list2, 1, Len(list)) = list

last(list) == list[Len(list)]

\* sum of f over a list, by index set
RECURSIVE sumOver(_, _, _)
sumOver(list, f(_), I) ==
    IF I = {} THEN 0
    ELSE LET i == CHOOSE j \in I : TRUE
         IN  f(list[i]) + sumOver(list, f, I \ {i})

\* C1: after updateStock(id, delta) on a Book of the store, the Book's stock
\* is max(0, old stock + delta); one Restock with bookId = id and
\* qtyAdded = delta is appended if delta > 0, none if delta <= 0.
C1_UpdateStock ==
    [][(op'.name = "updateStock" /\ findIndex(books, op'.id) # 0) =>
        LET id == op'.id
            delta == op'.delta
            idx == findIndex(books, id)
            old == books[idx].stock
        IN  /\ Len(books') = Len(books)
            /\ books'[idx].id = id
            /\ books'[idx].stock = (IF old + delta > 0 THEN old + delta ELSE 0)
            /\ delta > 0 => /\ appendedOne(restocks, restocks')
                            /\ last(restocks').bookId = id
                            /\ last(restocks').qtyAdded = delta
            /\ delta <= 0 => restocks' = restocks]_vars

\* C1 witness: a restock of an existing Book and a decrease clamped at zero
C1_Witness ==
    /\ op.name = "updateStock"
    /\ op.delta < 0
    /\ findIndex(books, op.id) # 0
    /\ books[findIndex(books, op.id)].stock = 0
    /\ Len(restocks) = 2
    /\ last(restocks).qtyAdded = 1

\* C2: recordSale(bookId, qty, totalAmount, costPrice, bookName) with
\* 0 < qty <= stock appends exactly one Sale with that bookId, qty and
\* totalAmount and profit = totalAmount - qty * costPrice, and the Book's
\* stock becomes stock - qty.
C2_RecordSale ==
    [][(/\ op'.name = "recordSale"
        /\ findIndex(books, op'.bookId) # 0
        /\ 0 < op'.qty
        /\ op'.qty <= books[findIndex(books, op'.bookId)].stock) =>
        LET idx == findIndex(books, op'.bookId)
            sale == last(sales')
        IN  /\ appendedOne(sales, sales')
            /\ sale.bookId = op'.bookId
            /\ sale.qty = op'.qty
            /\ sale.totalAmount = op'.totalAmount
            /\ sale.profit = op'.totalAmount - op'.qty * op'.costPrice
            /\ books'[idx].stock = books[idx].stock - op'.qty]_vars

\* C2 witness: a sale of two units at a loss that leaves stock behind
C2_Witness ==
    /\ op.name = "recordSale"
    /\ op.qty = 2
    /\ findIndex(books, op.bookId) # 0
    /\ books[findIndex(books, op.bookId)].stock > 0
    /\ last(sales).profit < 0

\* C3: every Book of the store has stock >= 0 in every reachable state.
C3_StockNonNegative ==
    \A i \in 1..Len(books) : books[i].stock >= 0

idsUniqueAndPositive(list) ==
    /\ \A i \in 1..Len(list) : list[i].id \in Nat \ {0}
    /\ \A i, j \in 1..Len(list) : list[i].id = list[j].id => i = j

\* C4: after any sequence of awaited calls from the empty store, no two
\* records of one collection have the same id and every id is a positive
\* integer.
C4_UniqueIds ==
    /\ idsUniqueAndPositive(books)
    /\ idsUniqueAndPositive(sales)
    /\ idsUniqueAndPositive(expenses)
    /\ idsUniqueAndPositive(restocks)

\* C5: getDashboardStats() returns netProfit = grossProfit - totalExpenses,
\* grossProfit the sum of profit over the Sales and totalExpenses the sum of
\* amount over the Expenses.
C5_NetProfit ==
    op.name = "getDashboardStats" =>
        LET profit(x) == x.profit
            amount(x) == x.amount
        IN  /\ op.result.grossProfit = sumOver(sales, profit, DOMAIN sales)
            /\ op.result.totalExpenses = sumOver(expenses, amount, DOMAIN expenses)
            /\ op.result.netProfit =
                   op.result.grossProfit - op.result.totalExpenses

\* C5 witness: statistics over a Sale and an Expense with a negative net
C5_Witness ==
    /\ op.name = "getDashboardStats"
    /\ Len(sales) > 0
    /\ Len(expenses) > 0
    /\ op.result.netProfit < 0
    /\ op.result.grossProfit # op.result.totalSales

\* C6: db.restoreData(await db.getRawData()) leaves the four collections as
\* they were, and a second call changes nothing the first call left.
C6_RestoreRawIdentity ==
    [][/\ op'.name = "restoreRaw" => store' = store
       /\ (op.name = "restoreRaw" /\ op'.name = "restoreRaw") =>
              (store' = store /\ counters' = counters)]_vars

\* C6 witness: the round trip ran on a store holding all four kinds of
\* record
C6_Witness ==
    /\ op.name = "restoreRaw"
    /\ books # <<>> /\ sales # <<>> /\ expenses # <<>> /\ restocks # <<>>
    /\ nextBookId = 2
    /\ books[1].id = 1

keptMessage == "Restore failed, previous data has been kept"

C8_RollbackFailureReported ==
    (op.name = "restoreFromExcel" /\ op.wrote = "rollbackFailed") =>
        op.result.message # keptMessage

\* workbooks with neither a Books nor a Sales sheet
FilesWithoutRequiredSheet ==
    {file \in Files :
        /\ file.kind = "workbook"
        /\ \A i \in 1..Len(file.sheets) :
              toLowerCase(file.sheets[i].name) \notin {"books", "sales"}}

\* C9: restoreFromExcel of a workbook with neither a Books nor a Sales
\* sheet returns success = false with the structural error and leaves the
\* four collections and the id counters unchanged, also when the workbook
\* has an Expenses sheet with valid rows.
C9_MissingSheets ==
    [][\A file \in FilesWithoutRequiredSheet :
          restoreFromExcel(file, NoFault) =>
              /\ store' = store
              /\ counters' = counters
              /\ op'.result.success = FALSE
              /\ op'.result.message = "Invalid backup file structure"
              /\ op'.result.errors =
                     <<"Required sheets \"Books\" or \"Sales\" not found in workbook">>]_vars

\* C9 witness: the structural failure was returned over a store with data,
\* and one of the workbooks has a valid Expenses row
C9_Witness ==
    /\ op.name = "restoreFromExcel"
    /\ op.result.message = "Invalid backup file structure"
    /\ books # <<>>
    /\ \E file \in FilesWithoutRequiredSheet :
          Len(validated(file.sheets).expenses) > 0

\* rows of the first sheet of a workbook with the given lower-cased name
rowsOf(wb, lower) == parseSheetData(wb, findSheet(wb, lower))

\* workbooks with a Books or Sales sheet and no row that validates
FilesWithoutValidData ==
    {file \in Files :
        /\ file.kind = "workbook"
        /\ \E i \in 1..Len(file.sheets) :
              toLowerCase(file.sheets[i].name) \in {"books", "sales"}
        /\ \A i \in 1..Len(rowsOf(file.sheets, "books")) :
              ~validateBookRow(rowsOf(file.sheets, "books")[i], i - 1).ok
        /\ \A i \in 1..Len(rowsOf(file.sheets, "sales")) :
              ~validateSaleRow(rowsOf(file.sheets, "sales")[i], i - 1).ok
        /\ \A i \in 1..Len(rowsOf(file.sheets, "expenses")) :
              ~validateExpenseRow(rowsOf(file.sheets, "expenses")[i], i - 1).ok}

\* C10: when the validated Books, Sales and Expenses lists are all empty,
\* restoreFromExcel returns success = false with the row errors followed by
\* the "no valid data" error and leaves the four collections unchanged.
C10_NoValidData ==
    [][\A file \in FilesWithoutValidData :
          restoreFromExcel(file, NoFault) =>
              LET wb == file.sheets
                  rows == Len(rowsOf(wb, "books")) + Len(rowsOf(wb, "sales"))
                          + Len(rowsOf(wb, "expenses"))
              IN  /\ store' = store
                  /\ op'.result.success = FALSE
                  /\ op'.result.message = "Restore file contains no valid data"
                  /\ Len(op'.result.errors) = rows + 1
                  /\ last(op'.result.errors) = "No valid data found to restore"]_vars

\* C10 witness: the "no valid data" failure was returned with row errors
\* over a store with data
C10_Witness ==
    /\ op.name = "restoreFromExcel"
    /\ op.result.message = "Restore file contains no valid data"
    /\ Len(op.result.errors) > 1
    /\ books # <<>>

\* the validator's verdict on every row of the three sheets of a workbook
rowResults(wb) ==
    LET rb == rowsOf(wb, "books")
        rs == rowsOf(wb, "sales")
        re == rowsOf(wb, "expenses")
    IN  [books |-> [i \in 1..Len(rb) |-> validateBookRow(rb[i], i - 1)],
         sales |-> [i \in 1..Len(rs) |-> validateSaleRow(rs[i], i - 1)],
         expenses |-> [i \in 1..Len(re) |-> validateExpenseRow(re[i], i - 1)]]

\* rowResults(wb) of every workbook offered, computed once
rowResultsOf == [wb \in Workbooks |-> rowResults(wb)]

okRows(res) == {i \in 1..Len(res) : res[i].ok}
badRows(res) == {i \in 1..Len(res) : ~res[i].ok}

\* workbooks with a Books or Sales sheet and at least one row that validates
FilesWithValidData ==
    {file \in Files :
        /\ file.kind = "workbook"
        /\ \E i \in 1..Len(file.sheets) :
              toLowerCase(file.sheets[i].name) \in {"books", "sales"}
        /\ LET r == rowResultsOf[file.sheets]
           IN  okRows(r.books) \cup okRows(r.sales) \cup okRows(r.expenses) # {}}

inSeq(x, list) == \E i \in 1..Len(list) : list[i] = x

hasId(list, id) == \E i \in 1..Len(list) : list[i].id = id

\* the id cell does not parse as a positive integer
badId(row) ==
    LET id == parseInt(cell(row, "id")) IN isNaN(id) \/ id.v <= 0

\* C11: in restoreFromExcel a row that fails validation is dropped and adds
\* exactly one message naming its sheet and its 1-based row number ("Invalid
\* id" for a Books row whose id is no positive integer, "Invalid date" for a
\* Sales row whose date does not parse); every valid row of the workbook is
\* still restored and the result is success = true.
C11_BadRowsDropped ==
    [][op'.name = "restoreFromExcel" =>
       \A file \in FilesWithValidData :
          (/\ books' = validatedOf[file.sheets].books
           /\ restoreFromExcel(file, NoFault)) =>
              LET wb == file.sheets
                  r == rowResultsOf[wb]
                  rb == rowsOf(wb, "books")
                  rs == rowsOf(wb, "sales")
                  errors == op'.result.errors
              IN  /\ op'.result.success = TRUE
                  /\ Len(errors) = Cardinality(badRows(r.books))
                         + Cardinality(badRows(r.sales))
                         + Cardinality(badRows(r.expenses))
                  /\ \A i \in 1..Len(rb) : badId(rb[i]) =>
                        inSeq("Books row " \o numToString(i) \o ": Invalid id",
                              errors)
                  /\ \A i \in 1..Len(rs) :
                        (~badId(rs[i]) /\ ~isValidDate(stringOr(cell(rs[i], "date"), ""))) =>
                        inSeq("Sales row " \o numToString(i) \o ": Invalid date \""
                                  \o stringOr(cell(rs[i], "date"), "") \o "\"",
                              errors)
                  /\ \A i \in okRows(r.books) : hasId(books', r.books[i].value.id)
                  /\ \A i \in okRows(r.sales) : hasId(sales', r.sales[i].value.id)
                  /\ \A i \in okRows(r.expenses) :
                        hasId(expenses', r.expenses[i].value.id)
                  /\ Len(books') <= Cardinality(okRows(r.books))
                  /\ Len(sales') <= Cardinality(okRows(r.sales))
                  /\ Len(expenses') <= Cardinality(okRows(r.expenses))]_vars

\* C11 witness: a restore succeeded with one Book although a Books row and
\* both Sales rows were rejected
C11_Witness ==
    /\ op.name = "restoreFromExcel"
    /\ op.result.success = TRUE
    /\ op.result.errors = <<"Books row 1: Invalid id",
                            "Sales row 1: Invalid date \"not-a-date\"",
                            "Sales row 2: Invalid id">>
    /\ Len(books) = 1
    /\ books[1].id = 2
    /\ sales = <<>>

\* the first valid row of a sheet that carries the given id
firstWithId(res, id) ==
    CHOOSE i \in okRows(res) :
        /\ res[i].value.id = id
        /\ \A j \in okRows(res) : res[j].value.id = id => i <= j

\* list holds, for every id of a valid row, the record of the first such row
\* and nothing else
firstOfEachId(list, res) ==
    /\ idsUniqueAndPositive(list)
    /\ Len(list) = Cardinality({res[i].value.id : i \in okRows(res)})
    /\ \A i \in okRows(res) :
          inSeq(res[firstWithId(res, res[i].value.id)].value, list)

\* workbooks of which one sheet has two valid rows with the same id
FilesWithDuplicateIds ==
    {file \in FilesWithValidData :
        LET r == rowResultsOf[file.sheets]
        IN  \E res \in {r.books, r.sales, r.expenses} :
               \E i, j \in okRows(res) : i # j /\ res[i].value.id = res[j].value.id}

\* C12: when several valid rows of one sheet have the same id, restoreFromExcel
\* restores only the first of them, adds no message for the later ones, and
\* the restored collection has pairwise distinct ids.
C12_FirstDuplicateWins ==
    [][op'.name = "restoreFromExcel" =>
       \A file \in FilesWithValidData :
          (/\ books' = validatedOf[file.sheets].books
           /\ restoreFromExcel(file, NoFault)) =>
              LET r == rowResultsOf[file.sheets]
              IN  /\ firstOfEachId(books', r.books)
                  /\ firstOfEachId(sales', r.sales)
                  /\ firstOfEachId(expenses', r.expenses)
                  /\ Len(op'.result.errors) = Cardinality(badRows(r.books))
                         + Cardinality(badRows(r.sales))
                         + Cardinality(badRows(r.expenses))]_vars

\* C12 witness: a workbook with duplicate Book, Sale and Expense ids was
\* restored to one record each, the first rows, without an error message
C12_Witness ==
    /\ op.name = "restoreFromExcel"
    /\ op.result.success = TRUE
    /\ op.result.errors = <<>>
    /\ \E file \in FilesWithDuplicateIds :
          /\ books = validatedOf[file.sheets].books
          /\ sales = validatedOf[file.sheets].sales
          /\ expenses = validatedOf[file.sheets].expenses
    /\ Len(books) = 1 /\ books[1].name = "A" /\ books[1].stock = 2
    /\ Len(sales) = 1 /\ sales[1].qty = 1
    /\ Len(expenses) = 1 /\ expenses[1].amount = 3

\* the next id of a collection as recomputed from its records
nextIdOf(list) == IF Len(list) = 0 THEN 1 ELSE maxId(list) + 1

\* C14: after db.restoreData(snapshot) the next id of each collection is
\* max(ids of the collection in the snapshot) + 1, or 1 if the collection is
\* empty in the snapshot, whatever the counters were before.
C14_RestoreDataCounters ==
    [][op'.name = "restoreRaw" =>
          counters' = <<nextIdOf(books), nextIdOf(sales),
                        nextIdOf(expenses), nextIdOf(restocks)>>]_vars

\* C15: updateBook, deleteBook, updateExpense and deleteExpense with an id
\* that is not in the collection leave the four collections and the counters
\* unchanged; after deleteBook(id) or deleteExpense(id) the id is not in the
\* collection, so a second call is such a no-op.
C15_NotFoundNoOp ==
    [][/\ (op'.name \in {"updateBook", "deleteBook"} /\ ~hasId(books, op'.id)) =>
              (store' = store /\ counters' = counters)
       /\ (op'.name \in {"updateExpense", "deleteExpense"}
           /\ ~hasId(expenses, op'.id)) =>
              (store' = store /\ counters' = counters)
       /\ op'.name = "deleteBook" => ~hasId(books', op'.id)
       /\ op'.name = "deleteExpense" => ~hasId(expenses', op'.id)]_vars

\* C15 witness: updateBook was called with an id that no Book of a store
\* with Books, Expenses and Restocks has
C15_Witness ==
    /\ op.name = "updateBook"
    /\ ~hasId(books, op.id)
    /\ books # <<>> /\ expenses # <<>> /\ restocks # <<>>

\* positions of books2 whose stock is larger than the Book had in books1
\* (a Book that was not there had no stock)
increased(books1, books2) ==
    {i \in 1..Len(books2) :
        LET idx == findIndex(books1, books2[i].id)
        IN  IF idx = 0 THEN books2[i].stock > 0
            ELSE books2[i].stock > books1[idx].stock}

stockBefore(books1, id) ==
    IF hasId(books1, id) THEN books1[findIndex(books1, id)].stock ELSE 0

\* C17: whenever a call makes a Book's stock larger, the Book's lastStockedAt
\* is the time of the call and one Restock for the Book with qtyAdded = the
\* increase is appended; no Restock is appended otherwise.
C17_StockIncreaseRestocks ==
    [][op'.name \in {"addBook", "updateBook", "deleteBook", "updateStock",
                     "recordSale", "addExpense", "updateExpense",
                     "deleteExpense"} =>
       /\ \A i \in increased(books, books') :
             /\ "lastStockedAt" \in DOMAIN books'[i]
             /\ books'[i].lastStockedAt = toISOString(now)
             /\ appendedOne(restocks, restocks')
             /\ last(restocks').bookId = books'[i].id
             /\ last(restocks').qtyAdded =
                    books'[i].stock - stockBefore(books, books'[i].id)
       /\ Len(restocks') > Len(restocks) => increased(books, books') # {}]_vars

\* C18: every Restock of the store has qtyAdded >= 1 in every reachable
\* state.
C18_QtyAddedPositive ==
    \A i \in 1..Len(restocks) : restocks[i].qtyAdded >= 1

isPrefix(list, list2) ==
    /\ Len(list) <= Len(list2)
    /\ SubSeq(list2, 1, Len(list)) = list

\* C19: addBook, updateBook, deleteBook, updateStock, recordSale, addExpense,
\* updateExpense and deleteExpense only append to Sales and Restocks: every
\* Sale and Restock that was there is still there, unchanged.
C19_AuditLogsAppendOnly ==
    [][op'.name \in {"addBook", "updateBook", "deleteBook", "updateStock",
                     "recordSale", "addExpense", "updateExpense",
                     "deleteExpense"} =>
          /\ isPrefix(sales, sales')
          /\ isPrefix(restocks, restocks')]_vars

\* C19 witness: a Book was deleted and its Sale and its Restock are still in
\* the store
C19_Witness ==
    /\ op.name = "deleteBook"
    /\ sales # <<>> /\ restocks # <<>>
    /\ sales[1].bookId = op.id
    /\ restocks[1].bookId = op.id
    /\ ~hasId(books, op.id)

\* C13: getLowStockBooks() returns exactly the Books with stock <= targetStock
\* or stock = 0, in store order.
C13_LowStockBooks ==
    op.name = "getLowStockBooks" =>
        op.result = SelectSeq(books, LAMBDA b : b.stock <= b.targetStock \/ b.stock = 0)

\* C13 witness: of two Books with targetStock 5 the one with stock 5 was
\* returned and the one with stock 6 was not
C13_Witness ==
    /\ op.name = "getLowStockBooks"
    /\ Len(books) = 2
    /\ books[1].targetStock = 5 /\ books[1].stock = 5
    /\ books[2].targetStock = 5 /\ books[2].stock = 6
    /\ op.result = <<books[1]>>

\* the Book's name or author contains the query, case-insensitively
containsQuery(b, query) ==
    \/ includes(toLowerCase(b.name), toLowerCase(query))
    \/ includes(toLowerCase(b.author), toLowerCase(query))

\* C16: searchBooks(query) returns exactly the Books whose name or author
\* contains the query case-insensitively, in the relative order in which
\* getAllBooks() returns them.
C16_SearchOrder ==
    op.name = "searchBooks" =>
        op.result = SelectSeq(allBooks(books),
                              LAMBDA b : containsQuery(b, op.query))

\* the cell holds a number or a string that Number() converts
numericCell(c) == c.k = "num" \/ (c.k = "str" /\ c.v \in DOMAIN NumberOfStr)

\* the cell holds a number or a string that parseInt() converts
integerCell(c) == c.k = "num" \/ (c.k = "str" /\ c.v \in DOMAIN IntPrefix)

validBook(b) ==
    /\ b.id > 0
    /\ b.name # "" /\ b.name \notin DOMAIN Trimmed
    /\ b.costPrice >= 0 /\ b.sellPrice >= 0
    /\ b.stock >= 0
    /\ b.targetStock >= 1

validSale(x) ==
    /\ x.id > 0
    /\ x.date \in ValidDates
    /\ x.qty >= 0
    /\ x.totalAmount >= 0

validExpense(e) ==
    /\ e.id > 0
    /\ e.date \in ValidDates
    /\ e.amount >= 0

C29_RestoreClearsRestocks ==
    [][op'.name = "restoreFromExcel" =>
       /\ op'.wrote = "data" => restocks' = <<>>
       /\ op'.wrote = "rolledBack" => restocks' = restocks
       /\ op'.wrote = "nothing" => restocks' = restocks
       /\ \A file \in FilesWithValidData :
             (/\ books' = validatedOf[file.sheets].books
              /\ restoreFromExcel(file, NoFault)) =>
                 LET r == rowResultsOf[file.sheets]
                 IN  /\ firstOfEachId(books', r.books)
                     /\ firstOfEachId(sales', r.sales)
                     /\ firstOfEachId(expenses', r.expenses)
                     /\ restocks' = <<>>
                     /\ nextRestockId' = 1]_vars

\* C29 witness: a successful restore left Books in the store and no Restock,
\* which no sequence of addBook calls does
C29_Witness ==
    /\ op.name = "restoreFromExcel"
    /\ op.wrote = "data"
    /\ books # <<>> /\ sales # <<>>
    /\ restocks = <<>>

\* the Restocks and the Sales of one Book
restocksOf(id) == SelectSeq(restocks, LAMBDA r : r.bookId = id)
salesOf(id) == SelectSeq(sales, LAMBDA x : x.bookId = id)

\* the stock the Restocks and Sales of a Book add up to
ledgerStock(id) ==
    LET qtyAddedOf(r) == r.qtyAdded
        qtyOf(x) == x.qty
    IN  sumOver(restocksOf(id), qtyAddedOf, DOMAIN restocksOf(id))
            - sumOver(salesOf(id), qtyOf, DOMAIN salesOf(id))

\* C25: a Book created by addBook and changed only by updateStock with a
\* positive delta and by recordSale of at most its stock has a stock equal
\* to the sum of qtyAdded over its Restocks minus the sum of qty over its
\* Sales.
C25_StockLedger ==
    \A i \in 1..Len(books) : books[i].stock = ledgerStock(books[i].id)

\* C27: an id addBook returns is different from every id an earlier addBook
\* returned, over addBook, deleteBook, restoreData(getRawData()), process
\* starts and rolled-back restores.  Every addBook leaves a Restock with the
\* id it assigned, and none of these calls removes a Restock.
C27_BookIdNeverReused ==
    [][op'.name = "addBook" =>
          \A i \in 1..Len(restocks) : restocks[i].bookId # op'.result.id]_vars

\* every Date the analytics screen computes has an ISO string that parses
\* back to it
DatesRoundTrip ==
    /\ op.name = "getFromDate" => getTime(isoString(op.result)) = Num(op.result)
    /\ \A i \in 1..Len(TimeStr) : TimeStr[i] = isoString((i - 1) * Day)
    /\ \A i \in 1..Len(sales) : ~isNaN(getTime(sales[i].date))
    /\ \A i \in 1..Len(expenses) : ~isNaN(getTime(expenses[i].date))

\* the time value of a stored record
timeOf(x) == getTime(x.date).v

\* the local midnight of the day a time value lies in
localMidnight(t, tz) ==
    CHOOSE m \in (t - Day + 1)..t : (m + tz) % Day = 0

\* result holds exactly the records of list that satisfy P, newest first
exactlyNewestFirst(result, list, P(_)) ==
    /\ \A i \in 1..Len(list) : P(list[i]) <=> inSeq(list[i], result)
    /\ \A k \in 1..Len(result) : inSeq(result[k], list)
    /\ Len(result) = Cardinality({i \in 1..Len(list) : P(list[i])})
    /\ \A i \in 1..Len(result), j \in 1..Len(result) :
          i < j => timeOf(result[i]) >= timeOf(result[j])

\* C21: getSalesFromDate(fromDate) returns exactly the Sales dated in
\* [startOfDay(fromDate), startOfDay(fromDate) + 24h), getExpensesFromDate
\* exactly the Expenses dated at or after fromDate, both newest first.
C21_DateQueries ==
    /\ op.name = "getSalesFromDate" =>
          LET start == localMidnight(getTime(op.fromDate).v, op.tz)
              inDay(s) == start <= timeOf(s) /\ timeOf(s) < start + Day
          IN  exactlyNewestFirst(op.result, sales, inDay)
    /\ op.name = "getExpensesFromDate" =>
          LET since(e) == timeOf(e) >= getTime(op.fromDate).v
          IN  exactlyNewestFirst(op.result, expenses, since)

\* C21 witness: two Sales of one day came back in the reverse of their
\* stored order while a third date lay outside the day
C21_Witness ==
    /\ op.name = "getSalesFromDate"
    /\ Len(sales) = 2
    /\ Len(op.result) = 2
    /\ op.result[1] = sales[2]
    /\ timeOf(sales[1]) < timeOf(sales[2])
    /\ op.tz # 0

\* the local midnight that began the most recent Monday
mondayMidnight(t, tz) ==
    CHOOSE m \in {localMidnight(t, tz) - k * Day : k \in 0..6} : getDay(m, tz) = 1

\* the local midnight that began the first day of the month of t
monthMidnight(t, tz) ==
    CHOOSE m \in {localMidnight(t, tz) - k * Day : k \in 0..30} : getDate(m, tz) = 1

\* C24: for every current timestamp getFromDate("Week") is the most recent
\* Monday at exactly 00:00 local time, getFromDate("Today") today's 00:00
\* and getFromDate("Month") the first day of the month at 00:00.
C24_DateWindows ==
    op.name = "getFromDate" =>
        /\ op.filter = "Week" => op.result = mondayMidnight(op.t, op.tz)
        /\ op.filter = "Today" => op.result = localMidnight(op.t, op.tz)
        /\ op.filter = "Month" => op.result = monthMidnight(op.t, op.tz)

\* the two windows other than Week do start at 00:00
C24_TodayAndMonth ==
    op.name = "getFromDate" =>
        /\ op.filter = "Today" => op.result = localMidnight(op.t, op.tz)
        /\ op.filter = "Month" => op.result = monthMidnight(op.t, op.tz)
        /\ op.filter = "Week" /\ getDay(op.t, op.tz) = 1 =>
              op.result = mondayMidnight(op.t, op.tz)

\* C30: the analytics figures come from Sales and Expenses selected by the
\* same date window: a Sale and an Expense with the same timestamp are both
\* counted or both left out.
C30_SameWindow ==
    op.name = "loadData" =>
        \A i \in 1..Len(sales), j \in 1..Len(expenses) :
            timeOf(sales[i]) = timeOf(expenses[j]) =>
                (inSeq(sales[i], op.salesData) <=> inSeq(expenses[j], op.expenseData))

\* every call other than loadIds has returned or was stopped
quiescent == \A i \in 1..Len(calls) : calls[i].call # "loadIds" => ~inFlight(calls[i])

\* every call began after the calls before it had returned
awaited == \A i \in 1..Len(calls) : ~calls[i].overlapped

stopped(f) == f.pc = "killed"

\* a recordSale stopped after its Sale was written and before the stock was
stoppedBetween(f) ==
    /\ f.call = "recordSale"
    /\ stopped(f)
    /\ f.at \in {"saveSales", "getBooks"}

\* the quantity of the Sales of a Book whose recordSale stopped in between
stoppedQty(id) ==
    LET I == {i \in 1..Len(calls) : stoppedBetween(calls[i]) /\ calls[i].arg.id = id}
        qtyOf(f) == f.arg.sale.qty
    IN  sumOver(calls, qtyOf, I)

\* C22: recordSale writes the Sale first and decrements the stock afterwards;
\* when the process stops between the two steps the Sale stays recorded and
\* the stock stays undecremented, in every later state: the Book's stock
\* exceeds what its Restocks and Sales add up to by the quantity sold.
C22_SaleWithoutStock ==
    awaited =>
        /\ \A i \in 1..Len(calls) :
              LET f == calls[i]
              IN  /\ f.call = "recordSale" /\ f.pc = "getSales" =>
                        ~inSeq(f.arg.sale, sales)
                  /\ f.call = "recordSale"
                        /\ (f.pc \in {"saveSales", "getBooks", "done"}
                               \/ stoppedBetween(f))
                        => inSeq(f.arg.sale, sales)
        /\ (/\ quiescent
            /\ \A i \in 1..Len(calls) :
                  stopped(calls[i]) => calls[i].call \in {"recordSale", "loadIds"})
           => \A k \in 1..Len(books) :
                 books[k].stock = ledgerStock(books[k].id)
                                     + stoppedQty(books[k].id)

\* C22 witness: a recordSale was stopped between its two writes, loadIds
\* has finished, and the Book still has the stock it had before the Sale
C22_Witness ==
    /\ \E i \in 1..Len(calls) : stoppedBetween(calls[i])
    /\ \E i \in 1..Len(calls) : calls[i].call = "loadIds" /\ calls[i].pc = "done"
    /\ awaited
    /\ Len(sales) = 1
    /\ Len(books) = 1
    /\ books[1].stock = 2
    /\ ledgerStock(1) = 1

\* C23: when every mutation is awaited before the next one starts, no
\* change of a finished mutation is missing: every Book a finished addBook
\* created is stored and every stock is what the Restocks and Sales add up
\* to.  (Overlapping mutations reach a state where a change is missing.)
C23_AwaitedKeepsChanges ==
    (/\ quiescent
     /\ awaited
     /\ \A i \in 1..Len(calls) : stopped(calls[i]) => calls[i].call = "loadIds")
    => /\ \A i \in 1..Len(calls) :
             calls[i].call = "addBook" /\ calls[i].pc = "done"
                => hasId(books, calls[i].locals.newBook.id)
       /\ \A k \in 1..Len(books) : books[k].stock = ledgerStock(books[k].id)
       /\ \A i \in 1..Len(calls) :
             calls[i].call \in {"addBook", "updateStock"} /\ calls[i].pc = "done"
                /\ "restock" \in DOMAIN calls[i].locals
                => inSeq(calls[i].locals.restock, restocks)

\* C23 witness: two addBook calls overlapped, both returned, and the Book
\* of the first is missing from the stored collection
C23_Witness ==
    /\ Len(calls) = 2
    /\ \A i \in 1..2 : calls[i].call = "addBook" /\ calls[i].pc = "done"
                       /\ calls[i].overlapped
    /\ ~hasId(books, calls[1].locals.newBook.id)
    /\ hasId(books, calls[2].locals.newBook.id)

\* the collection an id was assigned for
slotOf(name) ==
    CASE name = "books" -> books
      [] name = "sales" -> sales
      [] name = "restocks" -> restocks

\* C26: an id assigned by addBook, recordSale or recordRestock is never the
\* id of a record already persisted in that collection, also when the call
\* is issued after a process start whose loadIds() has not finished.
C26_FreshIds ==
    [][("assigned" \in DOMAIN op' /\ op' # op) =>
          ~hasId(slotOf(op'.assigned), op'.id)]_vars

\* C28: addBook, recordSale and recordRestock never remove or alter the
\* records already stored in their collection, whatever the outcome of the
\* storage read: the collection written begins with the collection stored.
C28_WritesKeepRecords ==
    [][("wrote" \in DOMAIN op' /\ op'.name = "step") =>
          /\ op'.wrote = "books" => isPrefix(books, books')
          /\ op'.wrote = "sales" => isPrefix(sales, sales')
          /\ op'.wrote = "restocks" => isPrefix(restocks, restocks')]_vars

====
